---- MODULE Spec2Model ----
(***************************************************************************)
(* PromoPilot (copp1723/ford_promo): the inventory-ingestion and           *)
(* incentive-fetch tools, their summary builders and the response          *)
(* envelope, as a state machine.                                           *)
(*                                                                         *)
(* One tool call is in flight at a time (the agent awaits each tool); the  *)
(* clock `now` advances independently.  JavaScript values are modelled by  *)
(* tagged records so that undefined, NaN and Invalid Date behave as they   *)
(* do in the source (comparisons with NaN are false, arithmetic with NaN   *)
(* or undefined gives NaN).  Strings are sequences of pieces: data strings *)
(* are sequences of one-character strings, literals of the source are one  *)
(* piece.  Time is counted in half-days, so that Math.floor and Math.ceil  *)
(* of a difference in days are not the identity.                           *)
(*                                                                         *)
(* Spec is the tools called one at a time, SpecSummary the calls of the    *)
(* pure helpers of common-utils, SpecOverlap two invocations in flight at  *)
(* once, SpecAgent the operations of a PromoPilotAgent and SpecMetrics the *)
(* timers of the global MetricsCollector.                                  *)
(***************************************************************************)
EXTENDS Integers, Sequences, FiniteSets, TLC

\* ------------------------------------------------------------------ bounds
\* rows one CSV stream delivers at most
MaxRows == 2
\* incentive objects one JSON payload holds at most
MaxIncentives == 2
\* items one call of calculateSummary is given at most
MaxItems == 3
\* half-days the clock advances at most
MaxTicks == 2
\* createChatCompletion calls made on the agent at most
MaxCompletions == 2
\* timers started at most
MaxTimers == 2

\* ------------------------------------------------------- JavaScript values
Undefined == [t |-> "undefined", n |-> 0, s |-> <<>>]
NaN == [t |-> "NaN", n |-> 0, s |-> <<>>]
Num(i) == [t |-> "number", n |-> i, s |-> <<>>]
Str(chars) == [t |-> "string", n |-> 0, s |-> chars]
Bool(b) == [t |-> "boolean", n |-> IF b THEN 1 ELSE 0, s |-> <<>>]
\* a Date object holding a valid time value
DateV(i) == [t |-> "Date", n |-> i, s |-> <<>>]
\* a Date object whose time value is NaN
InvalidDate == [t |-> "InvalidDate", n |-> 0, s |-> <<>>]
\* null
Null == [t |-> "null", n |-> 0, s |-> <<>>]
\* x / 0 for x # 0
Infinity(sign) == [t |-> "Infinity", n |-> sign, s |-> <<>>]

\* typeof v
TypeOf(v) ==
  CASE v.t \in {"number", "NaN", "Infinity"} -> "number"
    [] v.t \in {"Date", "InvalidDate"} -> "object"
    [] OTHER -> v.t

\* ToBoolean(v), as used by ||, ! and if
Truthy(v) ==
  CASE v.t = "undefined" -> FALSE
    [] v.t = "null" -> FALSE
    [] v.t = "NaN" -> FALSE
    [] v.t = "number" -> v.n # 0
    [] v.t = "string" -> v.s # <<>>
    [] v.t = "boolean" -> v.n = 1
    [] OTHER -> TRUE

\* a || b
Or(a, b) == IF Truthy(a) THEN a ELSE b

\* obj[key] of an object modelled as a function on its own keys
Get(obj, key) == IF key \in DOMAIN obj THEN obj[key] ELSE Undefined

\* an object with no own keys
EmptyMap == [k \in {} |-> Undefined]

\* obj[key] = v
MapSet(obj, key, v) == [k \in (DOMAIN obj) \cup {key} |-> IF k = key THEN v ELSE obj[k]]

\* ToNumber(v) for the operands the source compares and subtracts
ToNumber(v) ==
  CASE v.t = "Date" -> Num(v.n)
    [] v.t = "InvalidDate" -> NaN
    [] v.t = "undefined" -> NaN
    [] v.t = "boolean" -> Num(v.n)
    [] OTHER -> v

\* a < b, a > b, a <= b on numbers and Dates: false when either side is NaN
Lt(a, b) == LET x == ToNumber(a) y == ToNumber(b) IN x.t = "number" /\ y.t = "number" /\ x.n < y.n
Gt(a, b) == Lt(b, a)
Le(a, b) == LET x == ToNumber(a) y == ToNumber(b) IN x.t = "number" /\ y.t = "number" /\ x.n <= y.n

\* a + b and a - b on numbers (NaN when an operand is undefined or NaN)
Add(a, b) == LET x == ToNumber(a) y == ToNumber(b) IN IF x.t = "number" /\ y.t = "number" THEN Num(x.n + y.n) ELSE NaN
Sub(a, b) == LET x == ToNumber(a) y == ToNumber(b) IN IF x.t = "number" /\ y.t = "number" THEN Num(x.n - y.n) ELSE NaN

\* Math.floor(a / d) and Math.ceil(a / d) for a positive integer d
FloorDiv(a, d) == IF a.t = "number" THEN Num(a.n \div d) ELSE NaN
CeilDiv(a, d) == IF a.t = "number" THEN Num(-((-a.n) \div d)) ELSE NaN

\* the quotient rounded down, as Math.floor would
RoundDivDown(a, k) ==
  IF a.t # "number" THEN NaN
  ELSE IF k = 0 THEN (IF a.n = 0 THEN NaN ELSE Infinity(IF a.n > 0 THEN 1 ELSE -1))
  ELSE Num(a.n \div k)

\* Math.round(a / k) for an integer k >= 0: floor(a / k + 1/2); 0 / 0 is NaN
RoundDiv(a, k) ==
  IF a.t # "number" THEN NaN
  ELSE IF k = 0 THEN (IF a.n = 0 THEN NaN ELSE Infinity(IF a.n > 0 THEN 1 ELSE -1))
  ELSE Num((2 * a.n + k) \div (2 * k))

\* ----------------------------------------------------------------- strings
Digits == <<"0", "1", "2", "3", "4", "5", "6", "7", "8", "9">>
IsDigit(c) == \E i \in 1..10 : Digits[i] = c
DigitVal(c) == (CHOOSE i \in 1..10 : Digits[i] = c) - 1
IsSpace(c) == c = " "

RECURSIVE TrimStart(_)
TrimStart(chars) == IF chars # <<>> /\ IsSpace(Head(chars)) THEN TrimStart(Tail(chars)) ELSE chars
RECURSIVE TrimEnd(_)
TrimEnd(chars) ==
  IF chars # <<>> /\ IsSpace(chars[Len(chars)]) THEN TrimEnd(SubSeq(chars, 1, Len(chars) - 1)) ELSE chars
\* String.prototype.trim
Trim(chars) == TrimEnd(TrimStart(chars))

\* the decimal digits of a natural number
RECURSIVE NatToStr(_)
NatToStr(i) == IF i < 10 THEN <<Digits[i + 1]>> ELSE NatToStr(i \div 10) \o <<Digits[(i % 10) + 1]>>

\* String(v), as a template literal and a property key convert a value
ToStr(v) ==
  CASE v.t = "string" -> v.s
    [] v.t = "undefined" -> <<"undefined">>
    [] v.t = "NaN" -> <<"NaN">>
    [] v.t = "number" -> IF v.n < 0 THEN <<"-">> \o NatToStr(-v.n) ELSE NatToStr(v.n)
    [] v.t = "boolean" -> IF v.n = 1 THEN <<"true">> ELSE <<"false">>
    [] OTHER -> <<"[object]">>

\* the number a run of leading digits denotes, given the value read so far
RECURSIVE DigitsValue(_, _)
DigitsValue(chars, acc) ==
  IF chars # <<>> /\ IsDigit(Head(chars)) THEN DigitsValue(Tail(chars), 10 * acc + DigitVal(Head(chars))) ELSE acc

\* parseInt(string) and, on the integers the model draws, parseFloat(string):
\* leading white space skipped, an optional sign, the longest run of digits;
\* NaN when no digit follows
ParsePrefix(chars) ==
  LET body == TrimStart(chars)
      neg == body # <<>> /\ Head(body) = "-"
      rest == IF body # <<>> /\ Head(body) \in {"-", "+"} THEN Tail(body) ELSE body
  IN IF rest # <<>> /\ IsDigit(Head(rest))
     THEN Num((IF neg THEN -1 ELSE 1) * DigitsValue(rest, 0))
     ELSE NaN

\* parseInt(v) / parseFloat(v): the argument is converted to a string first
parseNumber(v) ==
  CASE v.t = "number" -> v
    [] v.t = "string" -> ParsePrefix(v.s)
    [] OTHER -> NaN

\* The model's instants are half-days; the date string of instant i is "T"
\* followed by the digits of i (the ISO form of the source, scaled).
\* Date.prototype.toISOString
toISOString(d) == <<"T">> \o NatToStr(d.n)

\* every character is a digit
RECURSIVE AllDigits(_)
AllDigits(chars) == chars = <<>> \/ (IsDigit(Head(chars)) /\ AllDigits(Tail(chars)))

\* new Date(v): a date string parses only as a whole; anything else is an
\* Invalid Date
newDate(v) ==
  IF v.t = "string" /\ Len(v.s) >= 2 /\ Head(v.s) = "T" /\ AllDigits(Tail(v.s))
  THEN DateV(DigitsValue(Tail(v.s), 0))
  ELSE InvalidDate

\* 1000 * 60 * 60 * 24 milliseconds, in the model's half-days
MS_PER_DAY == 2

\* ------------------------------------------------------------------ errors
VALIDATION == "VALIDATION_ERROR"
FILE_SYSTEM == "FILE_SYSTEM_ERROR"

\* new AppError(message, type, severity, details)
AppError(message, type, details) ==
  [name |-> "AppError", message |-> Str(message), type |-> Str(<<type>>), details |-> details]

\* an error that is no AppError: new Error(message), or one the runtime throws
\* (ReferenceError, TypeError, SyntaxError); it has no type and no details
PlainError(name, message) ==
  [name |-> name, message |-> Str(message), type |-> Undefined, details |-> EmptyMap]

\* the null the envelope builders take as their default error argument
NullError == [name |-> "null", message |-> Undefined, type |-> Undefined, details |-> EmptyMap]

\* an instanceof test that recognises no error
IsAppErrorNever(error) == FALSE

\* error instanceof AppError
IsAppError(error) == error.name = "AppError"

\* ---------------------------------------------------------------- envelopes
\* createResponse(success, data, error) at clock value `clock`: the data
\* argument is spread after success and timestamp, whatever success is
createResponse(success, data, error, clock) ==
  LET response == data @@ ("success" :> success @@ "timestamp" :> Str(toISOString(DateV(clock))))
  IN IF ~Truthy(success) /\ error.name # "null"
     THEN LET withError == MapSet(response, "error", Or(error.message, Str(<<"Unknown error occurred">>)))
          IN IF IsAppError(error)
             THEN MapSet(MapSet(withError, "errorType", error.type), "errorDetails", error.details)
             ELSE withError
     ELSE response

\* createStandardResponse(success, data, error) at clock value `clock`
createStandardResponse(success, data, error, clock) ==
  LET response == ("success" :> success @@ "timestamp" :> Str(toISOString(DateV(clock))))
  IN IF Truthy(success)
     THEN data @@ response
     ELSE LET message == IF error.name = "null" THEN Undefined ELSE error.message
              withError == MapSet(response, "error", Or(message, Str(<<"Unknown error">>)))
          IN IF IsAppError(error)
             THEN MapSet(MapSet(withError, "errorType", error.type), "errorDetails", error.details)
             ELSE withError

\* handleError(error, operation, logger): logs, then builds the failure envelope
handleError(error, clock) == createResponse(Bool(FALSE), EmptyMap, error, clock)

\* ------------------------------------------------------------- file system
\* the paths the model's file system holds
InventoryPath == <<"i", ".", "c", "s", "v">>
IncentivePath == <<"p", ".", "j", "s", "o", "n">>
MissingPath == <<"x">>
ExistingFiles == {InventoryPath, IncentivePath}

\* fs.pathExists(path): false for a value that is no path
pathExists(path) == path.t = "string" /\ path.s \in ExistingFiles

\* checkFileExists with the existence test left out
checkFileExistsSkipped(filePath, fileType) == [ok |-> TRUE, error |-> NullError]

\* checkFileExists(filePath, fileType): the AppError it throws, if any
checkFileExists(filePath, fileType) ==
  IF pathExists(filePath)
  THEN [ok |-> TRUE, error |-> NullError]
  ELSE [ok |-> FALSE, error |-> AppError(<<fileType, " not found: ">> \o ToStr(filePath), FILE_SYSTEM, EmptyMap)]

\* --------------------------------------------------------- input validation
\* FieldValidators.filePath: the trimmed path, or the AppError thrown
filePath(value) ==
  IF value.t # "string" \/ Len(Trim(value.s)) = 0
  THEN [ok |-> FALSE, value |-> Undefined]
  ELSE [ok |-> TRUE, value |-> Str(Trim(value.s))]

\* InputSchemas.inventoryIngestor, in the order Object.entries visits it
InventoryIngestorSchema ==
  << [field |-> "file_path", required |-> TRUE, type |-> "", validator |-> TRUE,
      hasDefault |-> FALSE, default |-> Undefined],
     [field |-> "calculate_metrics", required |-> FALSE, type |-> "boolean", validator |-> FALSE,
      hasDefault |-> TRUE, default |-> Bool(TRUE)] >>

\* one pass of validateInput's loop over a schema field: what it does with
\* the field ("error", "skip" or "set") and the value it stores
validateField(rules, input) ==
  LET given == rules.field \in DOMAIN input
      value == IF ~given /\ rules.hasDefault THEN rules.default ELSE Get(input, rules.field)
  IN IF rules.required /\ ~given THEN [act |-> "error", value |-> Undefined]
     ELSE IF ~given /\ ~rules.required THEN [act |-> "skip", value |-> value]
     ELSE IF rules.type # "" /\ TypeOf(value) # rules.type THEN [act |-> "error", value |-> Undefined]
     ELSE IF rules.validator
          THEN (IF filePath(value).ok THEN [act |-> "set", value |-> filePath(value).value]
                ELSE [act |-> "error", value |-> Undefined])
          ELSE [act |-> "set", value |-> value]

\* validateInput(schemaName, input): the validated object, or the AppError thrown
validateInput(schema, input) ==
  LET outcome(i) == validateField(schema[i], input)
      failed == {i \in 1..Len(schema) : outcome(i).act = "error"}
      kept == {i \in 1..Len(schema) : outcome(i).act = "set"}
      validated == [f \in {schema[i].field : i \in kept} |->
                      outcome(CHOOSE i \in kept : schema[i].field = f).value]
  IN IF failed # {}
     THEN [ok |-> FALSE, value |-> EmptyMap,
           error |-> AppError(<<"Input validation failed">>, VALIDATION, "errors" :> Cardinality(failed))]
     ELSE [ok |-> TRUE, value |-> validated, error |-> NullError]

\* -------------------------------------------------------- inventory ingestor
\* the names the inventory-ingestor module binds: its imports and its own
\* declarations
InventoryModuleBindings ==
  {"fs", "csv", "path", "logger", "AppError", "ErrorTypes", "ErrorSeverity",
   "validateInput", "validateOutput", "checkFileExists", "createResponse", "handleError",
   "formatVehicleLine", "incrementCounter", "calculateSummary", "createChildLogger",
   "parseNumberSafe", "inventoryIngestorDefinition", "ingest_inventory_data",
   "getAgingCategory", "calculateInventorySummary"}

\* the call createStandardResponse(success, data, error) as the inventory
\* module evaluates it: a ReferenceError when the module binds no such name
InventoryRespond(success, data, error, clock) ==
  IF "createStandardResponse" \in InventoryModuleBindings
  THEN [threw |-> FALSE, value |-> createStandardResponse(success, data, error, clock)]
  ELSE [threw |-> TRUE,
        value |-> PlainError("ReferenceError", <<"createStandardResponse is not defined">>)]

\* getAgingCategory with strict comparisons: day 30 is already 'Aging'
getAgingCategoryStrict(daysOnLot) ==
  IF Lt(daysOnLot, Num(30)) THEN Str(<<"Fresh">>)
  ELSE IF Lt(daysOnLot, Num(60)) THEN Str(<<"Aging">>)
  ELSE IF Lt(daysOnLot, Num(90)) THEN Str(<<"Stale">>)
  ELSE Str(<<"Critical">>)

\* getAgingCategory(daysOnLot)
getAgingCategory(daysOnLot) ==
  IF Le(daysOnLot, Num(30)) THEN Str(<<"Fresh">>)
  ELSE IF Le(daysOnLot, Num(60)) THEN Str(<<"Aging">>)
  ELSE IF Le(daysOnLot, Num(90)) THEN Str(<<"Stale">>)
  ELSE Str(<<"Critical">>)

\* the vehicle the 'data' handler builds from one CSV row (the columns the
\* summaries read; vin, trim, color, invoice and stock_number are copied
\* in the same way and read by nothing)
parseRow(row) ==
  [ make |-> Or(Get(row, "Make"), Get(row, "make")),
    model |-> Or(Get(row, "Model"), Get(row, "model")),
    year |-> parseNumber(Or(Get(row, "Year"), Get(row, "year"))),
    msrp |-> parseNumber(Or(Or(Get(row, "MSRP"), Get(row, "msrp")), Num(0))),
    date_received |-> newDate(Or(Get(row, "DateReceived"), Get(row, "date_received"))),
    status |-> Or(Or(Get(row, "Status"), Get(row, "status")), Str(<<"Available">>)),
    location |-> Or(Or(Get(row, "Location"), Get(row, "location")), Str(<<"Main Lot">>)) ]

\* the derived fields the 'data' handler adds when calculate_metrics is truthy
vehicleMetrics(vehicle, clock) ==
  LET daysOnLot == FloorDiv(Sub(DateV(clock), vehicle.date_received), MS_PER_DAY)
  IN [ days_on_lot |-> daysOnLot,
       aging_category |-> getAgingCategory(daysOnLot),
       vehicle_line |-> Str(ToStr(vehicle.year) \o <<" ">> \o ToStr(vehicle.make)
                            \o <<" ">> \o ToStr(vehicle.model)) ]

\* the body of the 'data' handler's try block: no statement of it throws,
\* so the handler's catch (the skipped row) is never entered
onDataVehicle(row, calculate_metrics, clock) ==
  LET vehicle == parseRow(row)
  IN IF Truthy(calculate_metrics) THEN vehicleMetrics(vehicle, clock) @@ vehicle ELSE vehicle

\* one pass of calculateInventorySummary's forEach
inventorySummaryStep(acc, vehicle) ==
  LET make == ToStr(vehicle.make)
      aging == ToStr(Get(vehicle, "aging_category"))
      days == Get(vehicle, "days_on_lot")
      line == ToStr(Get(vehicle, "vehicle_line"))
      lineData == IF line \in DOMAIN acc.vehicle_lines
                  THEN acc.vehicle_lines[line]
                  ELSE [count |-> Num(0), total_days |-> Num(0), avg_days |-> Num(0), total_value |-> Num(0)]
  IN [ by_make |-> MapSet(acc.by_make, make, Add(Or(Get(acc.by_make, make), Num(0)), Num(1))),
       by_aging |-> MapSet(acc.by_aging, aging, Add(Get(acc.by_aging, aging), Num(1))),
       totalDays |-> Add(acc.totalDays, days),
       total_msrp_value |-> Add(acc.total_msrp_value, vehicle.msrp),
       vehicle_lines |-> MapSet(acc.vehicle_lines, line,
                           [ count |-> Add(lineData.count, Num(1)),
                             total_days |-> Add(lineData.total_days, days),
                             avg_days |-> lineData.avg_days,
                             total_value |-> Add(lineData.total_value, vehicle.msrp) ]) ]

RECURSIVE inventorySummaryLoop(_, _)
inventorySummaryLoop(acc, vehicles) ==
  IF vehicles = <<>> THEN acc
  ELSE inventorySummaryLoop(inventorySummaryStep(acc, Head(vehicles)), Tail(vehicles))

\* calculateInventorySummary(inventory)
calculateInventorySummary(vehicles) ==
  LET start == [ by_make |-> EmptyMap,
                 by_aging |-> (<<"Fresh">> :> Num(0) @@ <<"Aging">> :> Num(0)
                               @@ <<"Stale">> :> Num(0) @@ <<"Critical">> :> Num(0)),
                 totalDays |-> Num(0),
                 total_msrp_value |-> Num(0),
                 vehicle_lines |-> EmptyMap ]
      acc == inventorySummaryLoop(start, vehicles)
  IN [ total_vehicles |-> Num(Len(vehicles)),
       by_make |-> acc.by_make,
       by_aging |-> acc.by_aging,
       average_days_on_lot |-> RoundDiv(acc.totalDays, Len(vehicles)),
       total_msrp_value |-> acc.total_msrp_value,
       vehicle_lines |-> [line \in DOMAIN acc.vehicle_lines |->
                            [acc.vehicle_lines[line] EXCEPT
                               !.avg_days = IF acc.vehicle_lines[line].count.t = "number"
                                            THEN RoundDiv(acc.vehicle_lines[line].total_days,
                                                          acc.vehicle_lines[line].count.n)
                                            ELSE NaN]] ]

\* validateOutput('inventoryIngestor', response): whether it passes
validateOutput(response) ==
  /\ "success" \in DOMAIN response
  /\ TypeOf(response["success"]) = "boolean"
  /\ "total_vehicles" \in DOMAIN response => TypeOf(response["total_vehicles"]) = "number"
  /\ "ingestion_date" \in DOMAIN response => TypeOf(response["ingestion_date"]) = "string"
  /\ "error" \in DOMAIN response => TypeOf(response["error"]) = "string"

\* --------------------------------------------------------- incentive fetcher
Upper == <<"A", "B", "C", "D", "E", "F", "G", "H", "I", "J", "K", "L", "M",
           "N", "O", "P", "Q", "R", "S", "T", "U", "V", "W", "X", "Y", "Z">>
Lower == <<"a", "b", "c", "d", "e", "f", "g", "h", "i", "j", "k", "l", "m",
           "n", "o", "p", "q", "r", "s", "t", "u", "v", "w", "x", "y", "z">>
LowerChar(c) == IF \E i \in 1..26 : Upper[i] = c THEN Lower[CHOOSE i \in 1..26 : Upper[i] = c] ELSE c
\* String.prototype.toLowerCase
toLowerCase(chars) == [i \in 1..Len(chars) |-> LowerChar(chars[i])]

\* replace(/\s+/g, '_'): every run of white space becomes one underscore
RECURSIVE replaceSpaces(_)
replaceSpaces(chars) ==
  IF chars = <<>> THEN <<>>
  ELSE IF IsSpace(Head(chars)) THEN <<"_">> \o replaceSpaces(TrimStart(chars))
  ELSE <<Head(chars)>> \o replaceSpaces(Tail(chars))

\* the template with only its end trimmed
formatVehicleLineTrimEnd(year, make, model) ==
  Str(TrimEnd(ToStr(year) \o <<" ">> \o ToStr(make) \o <<" ">> \o ToStr(model)))

\* the template as it stands
formatVehicleLineUntrimmed(year, make, model) ==
  Str(ToStr(year) \o <<" ">> \o ToStr(make) \o <<" ">> \o ToStr(model))

\* formatVehicleLine(year, make, model)
formatVehicleLine(year, make, model) ==
  Str(Trim(ToStr(year) \o <<" ">> \o ToStr(make) \o <<" ">> \o ToStr(model)))

\* incrementCounter(obj, key, amount = 1): the object after the call
incrementCounter(obj, key) ==
  MapSet(obj, ToStr(key), Add(Or(Get(obj, ToStr(key)), Num(0)), Num(1)))

\* generateIncentiveId(incentive)
generateIncentiveId(incentive) ==
  Str(replaceSpaces(toLowerCase(
        ToStr(Get(incentive, "make")) \o <<"_">> \o ToStr(Get(incentive, "model")) \o <<"_">>
        \o ToStr(Or(Get(incentive, "type"), Str(<<"incentive">>))))))

\* getIncentiveStatus that expires an incentive on its end date
getIncentiveStatusEndExclusive(startDate, endDate, current) ==
  IF Lt(current, startDate) THEN Str(<<"Upcoming">>)
  ELSE IF Le(endDate, current) THEN Str(<<"Expired">>)
  ELSE Str(<<"Active">>)

\* getIncentiveStatus with the operands of both comparisons exchanged
getIncentiveStatusSwapped(startDate, endDate, current) ==
  IF Lt(startDate, current) THEN Str(<<"Upcoming">>)
  ELSE IF Gt(endDate, current) THEN Str(<<"Expired">>)
  ELSE Str(<<"Active">>)

\* getIncentiveStatus with both comparisons written as negations
getIncentiveStatusNegated(startDate, endDate, current) ==
  IF ~Le(startDate, current) THEN Str(<<"Upcoming">>)
  ELSE IF ~Le(current, endDate) THEN Str(<<"Expired">>)
  ELSE Str(<<"Active">>)

\* getIncentiveStatus(startDate, endDate, currentDate)
getIncentiveStatus(startDate, endDate, current) ==
  IF Lt(current, startDate) THEN Str(<<"Upcoming">>)
  ELSE IF Gt(current, endDate) THEN Str(<<"Expired">>)
  ELSE Str(<<"Active">>)

\* the record the map callback builds from one incentive object (the fields
\* the filters and the summary read; the remaining fields are copied or
\* defaulted in the same way and read by nothing)
processIncentive(incentive, clock) ==
  LET start_date == newDate(Get(incentive, "start_date"))
      end_date == newDate(Get(incentive, "end_date"))
  IN [ id |-> Or(Get(incentive, "id"), generateIncentiveId(incentive)),
       make |-> Get(incentive, "make"),
       model |-> Get(incentive, "model"),
       year |-> Get(incentive, "year"),
       incentive_type |-> Or(Get(incentive, "type"), Get(incentive, "incentive_type")),
       value |-> parseNumber(Or(Or(Get(incentive, "value"), Get(incentive, "amount")), Num(0))),
       start_date |-> start_date,
       end_date |-> end_date,
       status |-> getIncentiveStatus(start_date, end_date, DateV(clock)),
       days_remaining |-> CeilDiv(Sub(end_date, DateV(clock)), MS_PER_DAY),
       vehicle_line |-> formatVehicleLine(Get(incentive, "year"), Get(incentive, "make"),
                                          Get(incentive, "model")) ]

\* the callbacks of the two Array.prototype.filter calls
KeepActive(inc) == inc.status = Str(<<"Active">>)
KeepUnexpired(inc) == inc.status # Str(<<"Expired">>)

\* the filters with the test of include_expired inverted
applyFiltersInverted(processedIncentives, filter_active_only, include_expired) ==
  LET afterActive == IF Truthy(filter_active_only) THEN SelectSeq(processedIncentives, KeepActive)
                     ELSE processedIncentives
  IN IF Truthy(include_expired) THEN SelectSeq(afterActive, KeepUnexpired) ELSE afterActive

\* the two filters of fetch_incentive_data, applied one after the other
applyFilters(processedIncentives, filter_active_only, include_expired) ==
  LET afterActive == IF Truthy(filter_active_only) THEN SelectSeq(processedIncentives, KeepActive)
                     ELSE processedIncentives
  IN IF ~Truthy(include_expired) THEN SelectSeq(afterActive, KeepUnexpired) ELSE afterActive

\* Math.max(a, b)
Max(a, b) == IF a.t # "number" \/ b.t # "number" THEN NaN ELSE IF a.n >= b.n THEN a ELSE b

\* Set.prototype.add on a Set kept in insertion order
SetAdd(seq, v) == IF \E i \in 1..Len(seq) : seq[i] = v THEN seq ELSE Append(seq, v)

\* the high-value test with the threshold itself included
isHighValueInclusive(incentive) == Le(Num(2000), incentive.value)

\* incentive.value > 2000
isHighValue(incentive) == Gt(incentive.value, Num(2000))

\* the expiring-soon test without the test of the status
isExpiringSoonAnyStatus(incentive) == Le(incentive.days_remaining, Num(30))

\* incentive.status === 'Active' && incentive.days_remaining <= 30
isExpiringSoon(incentive) ==
  incentive.status = Str(<<"Active">>) /\ Le(incentive.days_remaining, Num(30))

\* one pass of calculateIncentiveSummary's forEach
incentiveSummaryStep(acc, incentive) ==
  LET line == ToStr(incentive.vehicle_line)
      lineData == IF line \in DOMAIN acc.vehicle_lines
                  THEN acc.vehicle_lines[line]
                  ELSE [count |-> Num(0), total_value |-> Num(0), max_value |-> Num(0), types |-> <<>>]
  IN [ by_make |-> incrementCounter(acc.by_make, incentive.make),
       by_type |-> incrementCounter(acc.by_type, incentive.incentive_type),
       by_status |-> MapSet(acc.by_status, ToStr(incentive.status),
                            Add(Get(acc.by_status, ToStr(incentive.status)), Num(1))),
       total_value |-> Add(acc.total_value, incentive.value),
       high_value_incentives |->
         IF isHighValue(incentive)
         THEN Append(acc.high_value_incentives,
                     [vehicle_line |-> incentive.vehicle_line, value |-> incentive.value,
                      type |-> incentive.incentive_type])
         ELSE acc.high_value_incentives,
       expiring_soon |->
         IF isExpiringSoon(incentive)
         THEN Append(acc.expiring_soon,
                     [vehicle_line |-> incentive.vehicle_line,
                      days_remaining |-> incentive.days_remaining, value |-> incentive.value])
         ELSE acc.expiring_soon,
       vehicle_lines |-> MapSet(acc.vehicle_lines, line,
                           [ count |-> Add(lineData.count, Num(1)),
                             total_value |-> Add(lineData.total_value, incentive.value),
                             max_value |-> Max(lineData.max_value, incentive.value),
                             types |-> SetAdd(lineData.types, incentive.incentive_type) ]) ]

RECURSIVE incentiveSummaryLoop(_, _)
incentiveSummaryLoop(acc, incentives) ==
  IF incentives = <<>> THEN acc
  ELSE incentiveSummaryLoop(incentiveSummaryStep(acc, Head(incentives)), Tail(incentives))

\* calculateIncentiveSummary(incentives)
calculateIncentiveSummary(incentives) ==
  LET start == [ by_make |-> EmptyMap,
                 by_type |-> EmptyMap,
                 by_status |-> (<<"Active">> :> Num(0) @@ <<"Upcoming">> :> Num(0)
                                @@ <<"Expired">> :> Num(0)),
                 total_value |-> Num(0),
                 high_value_incentives |-> <<>>,
                 expiring_soon |-> <<>>,
                 vehicle_lines |-> EmptyMap ]
      acc == incentiveSummaryLoop(start, incentives)
  IN [ total_incentives |-> Num(Len(incentives)),
       by_make |-> acc.by_make,
       by_type |-> acc.by_type,
       by_status |-> acc.by_status,
       total_value |-> acc.total_value,
       average_value |-> RoundDiv(acc.total_value, Len(incentives)),
       vehicle_lines |-> acc.vehicle_lines,
       high_value_incentives |-> acc.high_value_incentives,
       expiring_soon |-> acc.expiring_soon ]

\* what fs.readJson delivers: a top-level array, an object with an
\* `incentives` array, another object ({"foo": []}), the JSON value null, or
\* text that is no JSON
PayloadKinds == {"array", "wrapped", "other", "null", "unparseable"}

\* fetch_incentive_data from the file read on: the sequence of incentive
\* objects, or the error thrown before there is one
readIncentives(payload) ==
  CASE payload.kind = "unparseable" ->
         [ok |-> FALSE, items |-> <<>>, error |-> PlainError("SyntaxError", <<"Unexpected token">>)]
    [] payload.kind = "null" ->
         [ok |-> FALSE, items |-> <<>>,
          error |-> PlainError("TypeError", <<"Cannot read properties of null">>)]
    [] payload.kind = "other" ->
         [ok |-> FALSE, items |-> <<>>,
          error |-> PlainError("Error",
            <<"Invalid incentive data format. Expected array or object with incentives property.">>)]
    [] OTHER -> [ok |-> TRUE, items |-> payload.items, error |-> NullError]

\* the envelope with total_incentives counted before the filters
fetchResponseUnfilteredTotal(payload, filter_active_only, include_expired, clock) ==
  LET read == readIncentives(payload)
      processedIncentives == [i \in 1..Len(read.items) |-> processIncentive(read.items[i], clock)]
      filteredIncentives == applyFilters(processedIncentives, filter_active_only, include_expired)
  IN IF ~read.ok THEN handleError(read.error, clock)
     ELSE createResponse(Bool(TRUE),
            [ data |-> filteredIncentives,
              summary |-> calculateIncentiveSummary(filteredIncentives),
              total_incentives |-> Num(Len(processedIncentives)),
              fetch_date |-> Str(toISOString(DateV(clock))) ],
            NullError, clock)

\* the envelope fetch_incentive_data returns once the file is read
fetchResponse(payload, filter_active_only, include_expired, clock) ==
  LET read == readIncentives(payload)
      processedIncentives == [i \in 1..Len(read.items) |-> processIncentive(read.items[i], clock)]
      filteredIncentives == applyFilters(processedIncentives, filter_active_only, include_expired)
  IN IF ~read.ok THEN handleError(read.error, clock)
     ELSE createResponse(Bool(TRUE),
            [ data |-> filteredIncentives,
              summary |-> calculateIncentiveSummary(filteredIncentives),
              total_incentives |-> Num(Len(filteredIncentives)),
              fetch_date |-> Str(toISOString(DateV(clock))) ],
            NullError, clock)

\* the processedIncentives of a fetch that read `payload` at `clock`
processedOf(payload, clock) ==
  LET read == readIncentives(payload)
  IN [i \in 1..Len(read.items) |-> processIncentive(read.items[i], clock)]

\* ------------------------------------------------------- calculateSummary
\* Number(value): a string converts as a whole (white space trimmed, the
\* empty string is 0, an optional sign and decimal digits), never by prefix
Number(v) ==
  CASE v.t = "string" ->
         LET body == Trim(v.s)
             rest == IF body # <<>> /\ Head(body) \in {"-", "+"} THEN Tail(body) ELSE body
         IN IF body = <<>> THEN Num(0)
            ELSE IF rest # <<>> /\ AllDigits(rest) THEN ParsePrefix(body)
            ELSE NaN
    [] v.t = "boolean" -> Num(v.n)
    [] v.t = "undefined" -> NaN
    [] v.t = "null" -> Num(0)
    [] v.t = "Date" -> Num(v.n)
    [] v.t = "InvalidDate" -> NaN
    [] OTHER -> v

\* isNaN(v) for a v that is already a number
isNaN(v) == v.t = "NaN"

\* parseNumberSafe(value, fallback = 0)
parseNumberSafe(value, fallback) ==
  LET parsed == Number(value)
  IN IF isNaN(parsed) THEN (IF fallback = Undefined THEN Num(0) ELSE fallback) ELSE parsed

\* pat is a prefix of chars
StartsWith(chars, pat) == Len(pat) <= Len(chars) /\ SubSeq(chars, 1, Len(pat)) = pat

\* String.prototype.replace(pat, rep) with a string pattern: the first
\* occurrence of pat, wherever it is, is replaced
RECURSIVE replace(_, _, _)
replace(chars, pat, rep) ==
  IF StartsWith(chars, pat) THEN rep \o SubSeq(chars, Len(pat) + 1, Len(chars))
  ELSE IF chars = <<>> THEN <<>>
  ELSE <<Head(chars)>> \o replace(Tail(chars), pat, rep)

UpperChar(c) == IF \E i \in 1..26 : Lower[i] = c THEN Upper[CHOOSE i \in 1..26 : Lower[i] = c] ELSE c
\* String.prototype.toUpperCase
toUpperCase(chars) == [i \in 1..Len(chars) |-> UpperChar(chars[i])]

\* the property names and the literals calculateSummary builds keys from
KMake == <<"m", "a", "k", "e">>
KType == <<"t", "y", "p", "e">>
KPrice == <<"p", "r", "i", "c", "e">>
KQuantity == <<"q", "u", "a", "n", "t", "i", "t", "y">>
KCategory == <<"c", "a", "t", "e", "g", "o", "r", "y">>
KBy == <<"b", "y", "_">>
KTotal == <<"t", "o", "t", "a", "l", "_">>
KAverage == <<"a", "v", "e", "r", "a", "g", "e", "_">>

\* config.itemTransform: the default (item) => item, or the transform of the
\* test suite, (item) => ({ ...item, category: item.make.toUpperCase() })
itemTransform(name, item) ==
  IF name = "category" THEN MapSet(item, KCategory, Str(toUpperCase(item[KMake].s))) ELSE item

\* groupByFields.forEach(field => { summary[`by_${field}`] = {} })
RECURSIVE initGroups(_, _)
initGroups(acc, fields) ==
  IF fields = <<>> THEN acc
  ELSE initGroups(MapSet(acc, KBy \o Head(fields), EmptyMap), Tail(fields))

\* the initialisation of the sum keys left out
initSumsSkipped(acc, sumFields) == acc

\* sumFields.forEach(({ key }) => { summary[key] = 0 })
RECURSIVE initSums(_, _)
initSums(acc, sumFields) ==
  IF sumFields = <<>> THEN acc
  ELSE initSums(MapSet(acc, Head(sumFields).key, Num(0)), Tail(sumFields))

\* the group-by counts of one item
RECURSIVE groupItem(_, _, _)
groupItem(acc, item, fields) ==
  IF fields = <<>> THEN acc
  ELSE LET value == Get(item, Head(fields))
           group == KBy \o Head(fields)
       IN groupItem(IF value # Undefined THEN MapSet(acc, group, incrementCounter(acc[group], value)) ELSE acc,
                    item, Tail(fields))

\* the sums of one item, each assigned where the source adds
RECURSIVE sumItemAssigned(_, _, _)
sumItemAssigned(acc, item, sumFields) ==
  IF sumFields = <<>> THEN acc
  ELSE LET value == Or(Number(Get(item, Head(sumFields).field)), Num(0))
       IN sumItemAssigned(MapSet(acc, Head(sumFields).key, value), item, Tail(sumFields))

\* the sums of one item
RECURSIVE sumItem(_, _, _)
sumItem(acc, item, sumFields) ==
  IF sumFields = <<>> THEN acc
  ELSE LET value == Or(Number(Get(item, Head(sumFields).field)), Num(0))
       IN sumItem(MapSet(acc, Head(sumFields).key, Add(Get(acc, Head(sumFields).key), value)),
                  item, Tail(sumFields))

\* items.forEach(item => { ... })
RECURSIVE summaryItems(_, _, _)
summaryItems(acc, items, config) ==
  IF items = <<>> THEN acc
  ELSE LET transformedItem == itemTransform(config.itemTransform, Head(items))
       IN summaryItems(sumItem(groupItem(acc, transformedItem, config.groupByFields),
                               transformedItem, config.sumFields),
                       Tail(items), config)

\* the averages: one for every sum key that replace changes
RECURSIVE summaryAverages(_, _, _)
summaryAverages(acc, sumFields, length) ==
  IF sumFields = <<>> THEN acc
  ELSE LET key == Head(sumFields).key
           avgKey == replace(key, KTotal, KAverage)
       IN summaryAverages(IF avgKey # key THEN MapSet(acc, avgKey, RoundDiv(Get(acc, key), length)) ELSE acc,
                          Tail(sumFields), length)

\* the destructuring of config, with its defaults
destructure(config) ==
  [ totalKey |-> config.totalKey,
    groupByFields |-> IF "groupByFields" \in DOMAIN config THEN config.groupByFields ELSE <<>>,
    sumFields |-> IF "sumFields" \in DOMAIN config THEN config.sumFields ELSE <<>>,
    itemTransform |-> IF "itemTransform" \in DOMAIN config THEN config.itemTransform ELSE "default" ]

\* calculateSummary(items, config)
calculateSummary(items, config) ==
  LET given == destructure(config)
      start == initSums(initGroups(given.totalKey :> Num(Len(items)), given.groupByFields),
                        given.sumFields)
      counted == summaryItems(start, items, given)
  IN IF Len(items) > 0 THEN summaryAverages(counted, given.sumFields, Len(items)) ELSE counted

\* ------------------------------------------------------------------ inputs
\* the clock value of the initial state, in half-days
Epoch == 200

Ford == <<"F", "o", "r", "d">>
Kia == <<"K", "i", "a">>
F150 == <<"F", "1", "5", "0">>
Rio == <<"R", "i", "o">>

\* the date string of instant i
DateStr(i) == Str(toISOString(DateV(i)))

\* the rows a CSV stream may deliver: 10, 95, 30, 60 and 90 days before
\* Epoch (a tick of the clock moves 30, 60 and 90 to 31, 61 and 91), a date
\* after Epoch, lower-case column names with a model cell padded by a space,
\* a missing MSRP, a year and a date that do not parse
RowSet ==
  { [Year |-> Str(<<"2", "0", "2", "4">>), Make |-> Str(Ford), Model |-> Str(F150),
     MSRP |-> Str(<<"2", "5", "0", "0", "0">>), DateReceived |-> DateStr(180)],
    [Year |-> Str(<<"2", "0", "2", "4">>), Make |-> Str(Ford), Model |-> Str(F150),
     MSRP |-> Str(<<"2", "7", "0", "0", "0">>), DateReceived |-> DateStr(10)],
    [Year |-> Str(<<"2", "0", "2", "3">>), Make |-> Str(Kia), Model |-> Str(Rio),
     DateReceived |-> DateStr(140)],
    [year |-> Str(<<"2", "0", "2", "3">>), make |-> Str(Kia), model |-> Str(Rio \o <<" ">>),
     msrp |-> Str(<<"1", "8", "0", "0", "0">>), date_received |-> DateStr(80)],
    [Year |-> Str(<<"2", "0", "2", "4">>), Make |-> Str(Kia), Model |-> Str(Rio),
     MSRP |-> Str(<<"9", "0", "0", "0">>), DateReceived |-> DateStr(20)],
    [Year |-> Str(<<"2", "0", "2", "4">>), Make |-> Str(Ford), Model |-> Str(F150),
     MSRP |-> Str(<<"3", "0", "0", "0", "0">>), DateReceived |-> DateStr(204)],
    [Year |-> Str(<<"a", "b", "c">>), Make |-> Str(Ford), Model |-> Str(F150),
     MSRP |-> Str(<<"2", "5", "0", "0", "0">>), DateReceived |-> DateStr(180)],
    [Year |-> Str(<<"2", "0", "2", "4">>), Make |-> Str(Ford), Model |-> Str(F150),
     MSRP |-> Str(<<"2", "5", "0", "0", "0">>), DateReceived |-> Str(<<"s", "o", "o", "n">>)] }

\* the parameter objects ingest_inventory_data is called with
InventoryParams ==
  { [file_path |-> Str(InventoryPath)],
    [file_path |-> Str(InventoryPath), calculate_metrics |-> Bool(TRUE)],
    [file_path |-> Str(InventoryPath), calculate_metrics |-> Bool(FALSE)],
    [file_path |-> Str(InventoryPath), calculate_metrics |-> Str(<<"y", "e", "s">>)],
    [file_path |-> Str(<<" ">>)],
    [file_path |-> Str(MissingPath)],
    EmptyMap }

\* the incentive objects a payload may hold: active with 30 and with 31 days
\* remaining, upcoming, expired, starting and ending at Epoch, one that uses
\* the alias fields and gives no dates, one with a negative value and no
\* start date, and one with a value and an end date that do not parse
IncentiveSet ==
  { [make |-> Str(Ford), model |-> Str(F150), year |-> Num(2024), type |-> Str(<<"c", "a", "s", "h">>),
     value |-> Num(2500), start_date |-> DateStr(100), end_date |-> DateStr(260)],
    [make |-> Str(Ford), model |-> Str(F150), year |-> Num(2024), type |-> Str(<<"c", "a", "s", "h">>),
     value |-> Num(2000), start_date |-> DateStr(100), end_date |-> DateStr(262)],
    [make |-> Str(Kia), model |-> Str(Rio), year |-> Num(2023), type |-> Str(<<"a", "p", "r">>),
     value |-> Num(500), start_date |-> DateStr(201), end_date |-> DateStr(300)],
    [make |-> Str(Kia), model |-> Str(Rio), year |-> Num(2023), type |-> Str(<<"a", "p", "r">>),
     value |-> Str(<<"3", "0", "0", "0">>), start_date |-> DateStr(100), end_date |-> DateStr(199)],
    [make |-> Str(Ford), model |-> Str(F150), year |-> Num(2024), type |-> Str(<<"c", "a", "s", "h">>),
     value |-> Num(1000), start_date |-> DateStr(200), end_date |-> DateStr(200)],
    [make |-> Str(Kia), model |-> Str(Rio), incentive_type |-> Str(<<"a", "p", "r">>),
     amount |-> Num(750)],
    [make |-> Str(Ford), model |-> Str(F150), year |-> Num(2024), type |-> Str(<<"c", "a", "s", "h">>),
     value |-> Num(-500), end_date |-> DateStr(199)],
    [make |-> Str(Kia), model |-> Str(Rio), year |-> Num(2023), type |-> Str(<<"a", "p", "r">>),
     value |-> Str(<<"n", "/", "a">>), start_date |-> DateStr(201),
     end_date |-> Str(<<"T", "B", "D">>)] }

\* the sequences over S of length at most n
BoundedSeq(S, n) == UNION {[1..k -> S] : k \in 0..n}

\* what the incentive file may hold: something that is no list of incentives,
\* a top-level array, or an object whose `incentives` property is an array
\* (drawn with at most one element, the array being handled as the
\* top-level one from there on)
Payloads ==
  {[kind |-> k, items |-> <<>>] : k \in {"other", "null", "unparseable"}}
  \cup {[kind |-> "array", items |-> items] : items \in BoundedSeq(IncentiveSet, MaxIncentives)}
  \cup {[kind |-> "wrapped", items |-> items] : items \in BoundedSeq(IncentiveSet, 1)}

\* the parameter objects fetch_incentive_data is called with
FlagChoices(name) == {EmptyMap, name :> Bool(TRUE), name :> Bool(FALSE)}
IncentiveParams ==
  {("source_path" :> Str(IncentivePath)) @@ a @@ e :
      a \in FlagChoices("filter_active_only"), e \in FlagChoices("include_expired")}
  \cup {"source_path" :> Str(MissingPath), EmptyMap}

\* the arguments the envelope builders are called with
SuccessArgs == {Bool(TRUE), Bool(FALSE)}
DataArgs ==
  { EmptyMap,
    [data |-> <<Num(1), Num(2), Num(3)>>, count |-> Num(3)],
    [error |-> Str(<<"stale">>)],
    [timestamp |-> Str(<<"T", "0">>)] }
ErrorArgs ==
  { NullError,
    PlainError("Error", <<"Regular error">>),
    PlainError("Error", <<>>),
    AppError(<<"Test error">>, VALIDATION, EmptyMap) }

\* the items calculateSummary is given: a price that is a numeric string, one
\* that is no number, a negative one, and an item without type and quantity
Sedan == <<"s", "e", "d", "a", "n">>
Suv == <<"s", "u", "v">>
ItemSet ==
  { KMake :> Str(Ford) @@ KType :> Str(Sedan) @@ KPrice :> Num(25000) @@ KQuantity :> Num(10),
    KMake :> Str(Ford) @@ KType :> Str(Suv) @@ KPrice :> Num(35000) @@ KQuantity :> Num(5),
    KMake :> Str(Kia) @@ KType :> Str(Sedan) @@ KPrice :> Str(<<"2", "8", "0", "0", "0">>)
      @@ KQuantity :> Num(8),
    KMake :> Str(Kia) @@ KPrice :> Str(<<"n", "/", "a">>),
    KMake :> Str(Kia) @@ KType :> Str(Suv) @@ KPrice :> Num(-3) @@ KQuantity :> Num(0) }

\* the output keys of the configurations
KTotalVehicles == KTotal \o <<"v", "e", "h", "i", "c", "l", "e", "s">>
KTotalPrice == KTotal \o KPrice
KTotalQuantity == KTotal \o KQuantity
KTotalItems == <<"t", "o", "t", "a", "l">>
KSumPrice == <<"s", "u", "m", "_">> \o KPrice
KGrandTotalPrice == <<"g", "r", "a", "n", "d", "_">> \o KTotal \o KPrice

\* the configurations calculateSummary is given, their output keys distinct:
\* that of the test suite, one whose sum key has no 'total_', one whose sum
\* key has 'total_' after a prefix, and one with a transform and no sums
ConfigSet ==
  { [ totalKey |-> KTotalVehicles, groupByFields |-> <<KMake, KType>>,
      sumFields |-> << [field |-> KPrice, key |-> KTotalPrice],
                       [field |-> KQuantity, key |-> KTotalQuantity] >> ],
    [ totalKey |-> KTotalItems, groupByFields |-> <<KType>>,
      sumFields |-> << [field |-> KPrice, key |-> KSumPrice] >> ],
    [ totalKey |-> KTotalItems,
      sumFields |-> << [field |-> KPrice, key |-> KGrandTotalPrice] >> ],
    [ totalKey |-> KTotalItems, groupByFields |-> <<KCategory>>, itemTransform |-> "category" ] }

\* --------------------------------------------------------- PromoPilotAgent
\* constructor(options): no agent yet, not initialized.  `agent` is null,
\* an OpenAIAgent whose tools are not loaded ("created") or one whose tools
\* are loaded ("loaded"); `initializing` says that a call of initialize() is
\* awaiting loadToolFunctions; `result` is what the last operation returned.
\* History: `completions` counts the createChatCompletion calls made on the
\* agent, `early` holds the methods that made one before any initialize()
\* had completed successfully, `loaded` says that one has.
NewPromoPilotAgent ==
  [ agent |-> "null", isInitialized |-> FALSE, initializing |-> FALSE, result |-> "none",
    completions |-> 0, early |-> {}, loaded |-> FALSE ]

\* the methods that test isInitialized first, and those that do not
GuardedMethods == {"analyzeAndRecommend", "quickRecommendation"}
UnguardedMethods == {"getInventorySummary", "getIncentiveSummary"}

\* this.agent.createChatCompletion(...) is invoked by `method`
createChatCompletion(self, method, resolved) ==
  [ self EXCEPT !.completions = @ + 1,
                !.early = IF self.loaded THEN @ ELSE @ \cup {method},
                !.result = IF resolved THEN "completed" ELSE "error response" ]

\* -------------------------------------------------------- MetricsCollector
\* MetricNames.INVENTORY_INGESTION and MetricNames.OPERATION_DURATION
INVENTORY_INGESTION == "inventory.ingestion"
OPERATION_DURATION == "operation.duration"
\* the metric names that have an entry in PerformanceThresholds
ThresholdNames == {INVENTORY_INGESTION}

\* new MetricsCollector()
NewMetricsCollector == [metrics |-> EmptyMap, timers |-> EmptyMap]

\* the tag names the model uses, in localeCompare order
TagOrder == <<"level", "metric", "tool">>

\* Object.entries(tags) sorted by name, each as `${k}:${v}`, from the i-th
\* tag name on
RECURSIVE tagEntries(_, _)
tagEntries(tags, i) ==
  IF i > Len(TagOrder) THEN <<>>
  ELSE IF TagOrder[i] \in DOMAIN tags
       THEN <<<<TagOrder[i], ":", tags[TagOrder[i]]>>>> \o tagEntries(tags, i + 1)
       ELSE tagEntries(tags, i + 1)

\* Array.prototype.join(',') of strings
RECURSIVE join(_)
join(entries) ==
  IF entries = <<>> THEN <<>>
  ELSE IF Len(entries) = 1 THEN entries[1]
  ELSE entries[1] \o <<",">> \o join(Tail(entries))

\* getMetricKey(name, tags)
getMetricKey(name, tags) ==
  LET tagString == join(tagEntries(tags, 1))
  IN IF tagString # <<>> THEN <<name, "{">> \o tagString \o <<"}">> ELSE <<name>>

\* increment(name, value, tags): the metrics map after the call
increment(metrics, name, value, tags) ==
  LET key == getMetricKey(name, tags)
      current == IF key \in DOMAIN metrics THEN metrics[key]
                 ELSE [type |-> "counter", value |-> 0, tags |-> tags]
  IN MapSet(metrics, key, [current EXCEPT !.value = @ + value])

\* values.slice(-1000)
HistogramCap == 1000
lastValues(values) ==
  IF Len(values) > HistogramCap THEN SubSeq(values, Len(values) - HistogramCap + 1, Len(values))
  ELSE values

\* histogram(name, value, tags) at `clock`: the metrics map after the call
histogram(metrics, name, value, tags, clock) ==
  LET key == getMetricKey(name, tags)
      current == IF key \in DOMAIN metrics THEN metrics[key]
                 ELSE [type |-> "histogram", values |-> <<>>, tags |-> tags]
      pushed == Append(current.values, [value |-> value, timestamp |-> clock])
  IN MapSet(metrics, key, [current EXCEPT !.values = lastValues(pushed)])

\* checkThreshold(metricName, value): the metrics map after the call.  The
\* thresholds are seconds and minutes, so a value of one half-day or more
\* exceeds the critical one and a value of 0 exceeds none.
checkThreshold(metrics, metricName, value) ==
  IF metricName \in ThresholdNames /\ value >= 1
  THEN increment(metrics, "threshold.exceeded", 1, [level |-> "critical", metric |-> metricName])
  ELSE metrics

\* endTimer(name, tags) at `clock`: the collector after the call and the
\* value returned
endTimer(self, name, tags, clock) ==
  LET key == getMetricKey(name, tags)
      startTime == Get(self.timers, key)
      duration == clock - startTime.n
  IN IF ~Truthy(startTime) THEN [collector |-> self, returned |-> Null]
     ELSE [ collector |-> [ timers |-> [k \in DOMAIN self.timers \ {key} |-> self.timers[k]],
                            metrics |-> checkThreshold(histogram(self.metrics, name, duration, tags, clock),
                                                       name, duration) ],
            returned |-> Num(duration) ]

\* ------------------------------------------------ inputs of the helpers
\* the arguments formatVehicleLine is called with
Honda == <<"H", "o", "n", "d", "a">>
Civic == <<"C", "i", "v", "i", "c">>
YearArgs == {Num(2024), Str(<<"2", "0", "2", "3">>), Str(<<>>)}
MakeArgs == {Str(Honda), Str(<<" ">> \o Honda \o <<" ">>), Str(<<"M", "a", "k", "e">>), Str(<<>>)}
ModelArgs == {Str(Civic), Str(<<" ">> \o Civic \o <<" ">>), Str(<<"M", "o", "d", "e", "l">>), Str(<<>>)}

\* the arguments parseNumberSafe is called with
ValueArgs ==
  { Num(456), Num(0), Str(<<"1", "2", "3">>), Str(<<"0">>), Str(<<"-", "7", "8", "9">>),
    Str(<<" ", " ", "4", "5", "6", " ", " ">>), Str(<<"1", "2", "3", "a", "b", "c">>),
    Str(<<"i", "n", "v", "a", "l", "i", "d">>), Str(<<"a", "b", "c">>), Str(<<>>),
    Null, Undefined, NaN }
FallbackArgs == {Undefined, Num(100)}

\* ------------------------------------------------------------------- state
VARIABLES
  now,          \* the clock, in half-days
  op,           \* the call in flight: "none", "inventory", "incentive", "envelope", "summary",
                \* "formatVehicleLine", "parseNumberSafe"
  pc,           \* where the call is
  args,         \* the parameters the call was given
  input,        \* what the file delivered: the CSV rows so far, or the JSON payload
  inventory,    \* ingest_inventory_data's inventory array
  processed,    \* fetch_incentive_data's processedIncentives
  currentDate,  \* the clock value the call read into currentDate
  summary,      \* the summary object the call computed
  outcome,      \* the promise the call returned: its state and its value
  promoPilot,   \* the PromoPilotAgent instance: its fields and the calls made on it
  collector,    \* the global MetricsCollector: its metrics and timers maps
  stops         \* the stop functions startTimer has returned

vars == <<now, op, pc, args, input, inventory, processed, currentDate, summary, outcome,
          promoPilot, collector, stops>>

NoOutcome == [state |-> "none", value |-> EmptyMap]

Init ==
  /\ now = Epoch
  /\ op = "none"
  /\ pc = "idle"
  /\ args = EmptyMap
  /\ input = <<>>
  /\ inventory = <<>>
  /\ processed = <<>>
  /\ currentDate = Epoch
  /\ summary = EmptyMap
  /\ outcome = NoOutcome
  /\ promoPilot = NewPromoPilotAgent
  /\ collector = NewMetricsCollector
  /\ stops = <<>>

\* half a day passes
Tick ==
  /\ now < Epoch + MaxTicks
  /\ now' = now + 1
  /\ UNCHANGED <<op, pc, args, input, inventory, processed, currentDate, summary, outcome>>
  /\ UNCHANGED <<promoPilot, collector, stops>>

\* ingest_inventory_data(params), up to the return of the stream's promise:
\* validation and the existence check, whose errors the catch block handles
\* by calling createStandardResponse
IngestCall ==
  /\ op = "none"
  /\ \E params \in InventoryParams :
       LET checked == validateInput(InventoryIngestorSchema, params)
           thrown == IF ~checked.ok THEN checked.error
                     ELSE AppError(<<"Inventory file not found: ">> \o ToStr(checked.value["file_path"]),
                                   FILE_SYSTEM, EmptyMap)
           caught == InventoryRespond(Bool(FALSE), EmptyMap, thrown, now)
       IN /\ args' = params
          /\ op' = "inventory"
          /\ IF checked.ok /\ pathExists(checked.value["file_path"])
             THEN /\ pc' = "streaming"
                  /\ outcome' = [state |-> "pending", value |-> EmptyMap]
             ELSE /\ pc' = "done"
                  /\ outcome' = [state |-> IF caught.threw THEN "rejected" ELSE "fulfilled",
                                 value |-> caught.value]
  /\ currentDate' = now
  /\ UNCHANGED <<now, input, inventory, processed, summary>>
  /\ UNCHANGED <<promoPilot, collector, stops>>

\* the calculate_metrics the call destructured from the validated parameters
calculateMetricsOf(params) == Get(validateInput(InventoryIngestorSchema, params).value, "calculate_metrics")

\* the stream's 'data' handler
OnData ==
  /\ op = "inventory" /\ pc = "streaming"
  /\ Len(inventory) < MaxRows
  /\ \E row \in RowSet :
       /\ input' = Append(input, row)
       /\ inventory' = Append(inventory, onDataVehicle(row, calculateMetricsOf(args), currentDate))
  /\ UNCHANGED <<now, op, pc, args, processed, currentDate, summary, outcome>>
  /\ UNCHANGED <<promoPilot, collector, stops>>

\* the stream's 'end' handler: an exception it throws escapes the handler
\* and leaves the promise pending
OnEnd ==
  /\ op = "inventory" /\ pc = "streaming"
  /\ LET computed == calculateInventorySummary(inventory)
         built == InventoryRespond(Bool(TRUE),
                    [ data |-> inventory, summary |-> computed,
                      total_vehicles |-> Num(Len(inventory)),
                      ingestion_date |-> Str(toISOString(DateV(currentDate))) ],
                    NullError, now)
     IN /\ summary' = computed
        /\ IF ~built.threw /\ validateOutput(built.value)
           THEN pc' = "done" /\ outcome' = [state |-> "fulfilled", value |-> built.value]
           ELSE pc' = "crashed" /\ outcome' = outcome
  /\ UNCHANGED <<now, op, args, input, inventory, processed, currentDate>>
  /\ UNCHANGED <<promoPilot, collector, stops>>

\* the stream's 'error' handler: it rejects the promise with an AppError
OnError ==
  /\ op = "inventory" /\ pc = "streaming"
  /\ pc' = "done"
  /\ outcome' = [state |-> "rejected",
                 value |-> AppError(<<"Failed to parse CSV: ", "stream error">>, FILE_SYSTEM,
                                    "filePath" :> Get(args, "file_path"))]
  /\ UNCHANGED <<now, op, args, input, inventory, processed, currentDate, summary>>
  /\ UNCHANGED <<promoPilot, collector, stops>>

\* the parameter defaults of fetch_incentive_data's destructuring
filterActiveOnlyOf(params) ==
  IF Get(params, "filter_active_only") = Undefined THEN Bool(TRUE) ELSE Get(params, "filter_active_only")
includeExpiredOf(params) ==
  IF Get(params, "include_expired") = Undefined THEN Bool(FALSE) ELSE Get(params, "include_expired")

\* fetch_incentive_data(params), up to the await of checkFileExists
FetchCall ==
  /\ op = "none"
  /\ \E params \in IncentiveParams : args' = params
  /\ op' = "incentive"
  /\ pc' = "checking"
  /\ outcome' = [state |-> "pending", value |-> EmptyMap]
  /\ UNCHANGED <<now, input, inventory, processed, currentDate, summary>>
  /\ UNCHANGED <<promoPilot, collector, stops>>

\* checkFileExists settles: a missing file goes to the catch block
FetchCheck ==
  /\ op = "incentive" /\ pc = "checking"
  /\ LET checked == checkFileExists(Get(args, "source_path"), "Incentive file")
     IN IF checked.ok
        THEN pc' = "reading" /\ outcome' = outcome
        ELSE pc' = "done" /\ outcome' = [state |-> "fulfilled", value |-> handleError(checked.error, now)]
  /\ UNCHANGED <<now, op, args, input, inventory, processed, currentDate, summary>>
  /\ UNCHANGED <<promoPilot, collector, stops>>

\* fs.readJson settles and the rest of fetch_incentive_data runs
FetchRead ==
  /\ op = "incentive" /\ pc = "reading"
  /\ \E payload \in Payloads :
       LET response == fetchResponse(payload, filterActiveOnlyOf(args), includeExpiredOf(args), now)
       IN /\ input' = payload
          /\ processed' = processedOf(payload, now)
          /\ summary' = Get(response, "summary")
          /\ outcome' = [state |-> "fulfilled", value |-> response]
  /\ currentDate' = now
  /\ pc' = "done"
  /\ UNCHANGED <<now, op, args, inventory>>
  /\ UNCHANGED <<promoPilot, collector, stops>>

\* a direct call of one of the two envelope builders
BuildEnvelope ==
  /\ op = "none"
  /\ \E builder \in {"createResponse", "createStandardResponse"}, success \in SuccessArgs,
        data \in DataArgs, error \in ErrorArgs :
       /\ args' = [builder |-> builder, success |-> success, data |-> data, error |-> error]
       /\ outcome' = [state |-> "fulfilled",
                      value |-> IF builder = "createResponse"
                                THEN createResponse(success, data, error, now)
                                ELSE createStandardResponse(success, data, error, now)]
  /\ op' = "envelope"
  /\ pc' = "done"
  /\ currentDate' = now
  /\ UNCHANGED <<now, input, inventory, processed, summary>>
  /\ UNCHANGED <<promoPilot, collector, stops>>

\* a direct call of calculateSummary(items, config)
SummaryCall ==
  /\ op = "none"
  /\ \E items \in BoundedSeq(ItemSet, MaxItems), config \in ConfigSet :
       /\ args' = [items |-> items, config |-> config]
       /\ summary' = calculateSummary(items, config)
  /\ op' = "summary"
  /\ pc' = "done"
  /\ outcome' = [state |-> "fulfilled", value |-> EmptyMap]
  /\ UNCHANGED <<now, input, inventory, processed, currentDate>>
  /\ UNCHANGED <<promoPilot, collector, stops>>

\* a direct call of formatVehicleLine(year, make, model)
FormatCall ==
  /\ op = "none"
  /\ \E year \in YearArgs, make \in MakeArgs, model \in ModelArgs :
       /\ args' = [year |-> year, make |-> make, model |-> model]
       /\ outcome' = [state |-> "returned", value |-> formatVehicleLine(year, make, model)]
  /\ op' = "formatVehicleLine"
  /\ pc' = "done"
  /\ UNCHANGED <<now, input, inventory, processed, currentDate, summary>>
  /\ UNCHANGED <<promoPilot, collector, stops>>

\* a direct call of parseNumberSafe(value, fallback)
ParseCall ==
  /\ op = "none"
  /\ \E value \in ValueArgs, fallback \in FallbackArgs :
       /\ args' = [value |-> value, fallback |-> fallback]
       /\ outcome' = [state |-> "returned", value |-> parseNumberSafe(value, fallback)]
  /\ op' = "parseNumberSafe"
  /\ pc' = "done"
  /\ UNCHANGED <<now, input, inventory, processed, currentDate, summary>>
  /\ UNCHANGED <<promoPilot, collector, stops>>

\* the caller is done with the call (or the process that crashed is
\* started again): the next call starts from fresh locals
Return ==
  /\ pc \in {"done", "crashed"}
  /\ op' = "none"
  /\ pc' = "idle"
  /\ args' = EmptyMap
  /\ input' = <<>>
  /\ inventory' = <<>>
  /\ processed' = <<>>
  /\ currentDate' = now
  /\ summary' = EmptyMap
  /\ outcome' = NoOutcome
  /\ UNCHANGED now
  /\ UNCHANGED <<promoPilot, collector, stops>>

Next ==
  \/ Tick
  \/ IngestCall
  \/ OnData
  \/ OnEnd
  \/ OnError
  \/ FetchCall
  \/ FetchCheck
  \/ FetchRead
  \/ BuildEnvelope
  \/ Return

Spec == Init /\ [][Next]_vars

\* calculateSummary, formatVehicleLine and parseNumberSafe are pure helpers
\* of common-utils: their direct calls are a specification of their own
NextSummary ==
  \/ SummaryCall
  \/ FormatCall
  \/ ParseCall
  \/ Return

SpecSummary == Init /\ [][NextSummary]_vars

\* -------------------------------------------------------- PromoPilotAgent
OtherThanAgent == <<now, op, pc, args, input, inventory, processed, currentDate, summary, outcome,
                    collector, stops>>

\* initialize() up to its await: new OpenAIAgent(...) throws and the catch
\* returns the failure, or the new agent is stored in this.agent and
\* loadToolFunctions is awaited
InitializeCall ==
  /\ ~promoPilot.initializing
  /\ \/ promoPilot' = [promoPilot EXCEPT !.result = "initialize failed"]
     \/ promoPilot' = [promoPilot EXCEPT !.agent = "created", !.initializing = TRUE,
                                         !.result = "none"]
  /\ UNCHANGED OtherThanAgent

\* loadToolFunctions resolves: initialize() sets isInitialized and returns
\* its success response
InitializeLoaded ==
  /\ promoPilot.initializing
  /\ promoPilot' = [promoPilot EXCEPT !.agent = "loaded", !.isInitialized = TRUE,
                                      !.initializing = FALSE, !.loaded = TRUE,
                                      !.result = "initialized"]
  /\ UNCHANGED OtherThanAgent

\* loadToolFunctions rejects: the catch of initialize() returns the failure
InitializeFailed ==
  /\ promoPilot.initializing
  /\ promoPilot' = [promoPilot EXCEPT !.initializing = FALSE, !.result = "initialize failed"]
  /\ UNCHANGED OtherThanAgent

\* analyzeAndRecommend(options) and quickRecommendation(message): throw when
\* isInitialized is false, else call the agent; what the agent answers is
\* wrapped in a response, what it throws is handled
Recommend ==
  /\ \E method \in GuardedMethods, resolved \in BOOLEAN :
       IF ~promoPilot.isInitialized
       THEN promoPilot' = [promoPilot EXCEPT !.result = "rejected"]
       ELSE /\ promoPilot.completions < MaxCompletions
            /\ promoPilot' = createChatCompletion(promoPilot, method, resolved)
  /\ UNCHANGED OtherThanAgent

\* getInventorySummary(filePath) and getIncentiveSummary(filePath): call
\* this.agent.createChatCompletion inside a try; with this.agent null the
\* call is a TypeError, which the catch handles
Summarise ==
  /\ \E method \in UnguardedMethods, resolved \in BOOLEAN :
       IF promoPilot.agent = "null"
       THEN promoPilot' = [promoPilot EXCEPT !.result = "error response"]
       ELSE /\ promoPilot.completions < MaxCompletions
            /\ promoPilot' = createChatCompletion(promoPilot, method, resolved)
  /\ UNCHANGED OtherThanAgent

NextAgent ==
  \/ InitializeCall
  \/ InitializeLoaded
  \/ InitializeFailed
  \/ Recommend
  \/ Summarise

SpecAgent == Init /\ [][NextAgent]_vars

\* ------------------------------------------------------- MetricsCollector
OtherThanMetrics == <<now, op, pc, args, input, inventory, processed, currentDate, summary,
                      outcome, promoPilot>>

\* the metric names and the tags timers are started with
TimerNames == {INVENTORY_INGESTION, OPERATION_DURATION}
TimerTags == {EmptyMap, [tool |-> "csv"]}

\* startTimer(name, tags): the start time is stored under the metric key and
\* a stop function closing over name and tags is returned (`started` and
\* `stoppedAt` are history: when the timer was started and stopped)
StartTimer ==
  /\ Len(stops) < MaxTimers
  /\ \E name \in TimerNames, tags \in TimerTags :
       /\ collector' = [collector EXCEPT !.timers = MapSet(@, getMetricKey(name, tags), Num(now))]
       /\ stops' = Append(stops, [name |-> name, tags |-> tags, started |-> now,
                                  called |-> FALSE, stoppedAt |-> now, returned |-> Undefined])
  /\ UNCHANGED OtherThanMetrics

\* a stop function is called: endTimer(name, tags)
StopTimer ==
  /\ \E i \in 1..Len(stops) :
       /\ ~stops[i].called
       /\ LET ended == endTimer(collector, stops[i].name, stops[i].tags, now)
          IN /\ collector' = ended.collector
             /\ stops' = [stops EXCEPT ![i].called = TRUE, ![i].stoppedAt = now,
                                       ![i].returned = ended.returned]
  /\ UNCHANGED OtherThanMetrics

NextMetrics ==
  \/ StartTimer
  \/ StopTimer
  \/ Tick

SpecMetrics == Init /\ [][NextMetrics]_vars

\* ------------------------------------------------- overlapping invocations
\* Two invocations in flight in one process.  Every variable but the clock
\* holds, for each invocation, what it holds for the single call of Spec: the
\* arrays, the summary and currentDate are locals of the invocation.
Calls == {1, 2}

\* the rows, parameters and payloads of the overlapping invocations
OverlapRows ==
  {row \in RowSet : "MSRP" \in DOMAIN row
                    /\ row.MSRP \in {Str(<<"2", "7", "0", "0", "0">>), Str(<<"9", "0", "0", "0">>)}}
OverlapInventoryParams == {[file_path |-> Str(InventoryPath), calculate_metrics |-> Bool(TRUE)]}
OverlapIncentives == {inc \in IncentiveSet : Get(inc, "value") \in {Num(2500), Num(500)}}
OverlapPayloads ==
  {[kind |-> "array", items |-> items] : items \in BoundedSeq(OverlapIncentives, MaxIncentives)}
OverlapIncentiveParams ==
  {"source_path" :> Str(IncentivePath),
   "source_path" :> Str(IncentivePath) @@ "filter_active_only" :> Bool(FALSE)}

\* invocation c may start: it has not started, and no other invocation has
\* ended, so that the invocations in flight overlap
MayStart(c) == pc[c] = "idle" /\ \A d \in Calls : pc[d] \notin {"done", "crashed"}

InitOverlap ==
  /\ now = Epoch
  /\ op = [c \in Calls |-> "none"]
  /\ pc = [c \in Calls |-> "idle"]
  /\ args = [c \in Calls |-> EmptyMap]
  /\ input = [c \in Calls |-> <<>>]
  /\ inventory = [c \in Calls |-> <<>>]
  /\ processed = [c \in Calls |-> <<>>]
  /\ currentDate = [c \in Calls |-> Epoch]
  /\ summary = [c \in Calls |-> EmptyMap]
  /\ outcome = [c \in Calls |-> NoOutcome]
  /\ promoPilot = NewPromoPilotAgent
  /\ collector = NewMetricsCollector
  /\ stops = <<>>

\* invocation c of ingest_inventory_data(params), as IngestCall
OverlapIngestCall(c) ==
  /\ MayStart(c)
  /\ \E params \in OverlapInventoryParams :
       LET checked == validateInput(InventoryIngestorSchema, params)
           thrown == IF ~checked.ok THEN checked.error
                     ELSE AppError(<<"Inventory file not found: ">> \o ToStr(checked.value["file_path"]),
                                   FILE_SYSTEM, EmptyMap)
           caught == InventoryRespond(Bool(FALSE), EmptyMap, thrown, now)
       IN /\ args' = [args EXCEPT ![c] = params]
          /\ op' = [op EXCEPT ![c] = "inventory"]
          /\ IF checked.ok /\ pathExists(checked.value["file_path"])
             THEN /\ pc' = [pc EXCEPT ![c] = "streaming"]
                  /\ outcome' = [outcome EXCEPT ![c] = [state |-> "pending", value |-> EmptyMap]]
             ELSE /\ pc' = [pc EXCEPT ![c] = "done"]
                  /\ outcome' = [outcome EXCEPT ![c] =
                                   [state |-> IF caught.threw THEN "rejected" ELSE "fulfilled",
                                    value |-> caught.value]]
  /\ currentDate' = [currentDate EXCEPT ![c] = now]
  /\ UNCHANGED <<now, input, inventory, processed, summary>>
  /\ UNCHANGED <<promoPilot, collector, stops>>

\* the 'data' handler of invocation c's stream
OverlapOnData(c) ==
  /\ op[c] = "inventory" /\ pc[c] = "streaming"
  /\ Len(inventory[c]) < MaxRows
  /\ \E row \in OverlapRows :
       /\ input' = [input EXCEPT ![c] = Append(@, row)]
       /\ inventory' = [inventory EXCEPT ![c] =
                          Append(@, onDataVehicle(row, calculateMetricsOf(args[c]), currentDate[c]))]
  /\ UNCHANGED <<now, op, pc, args, processed, currentDate, summary, outcome>>
  /\ UNCHANGED <<promoPilot, collector, stops>>

\* the 'end' handler of invocation c's stream
OverlapOnEnd(c) ==
  /\ op[c] = "inventory" /\ pc[c] = "streaming"
  /\ LET computed == calculateInventorySummary(inventory[c])
         built == InventoryRespond(Bool(TRUE),
                    [ data |-> inventory[c], summary |-> computed,
                      total_vehicles |-> Num(Len(inventory[c])),
                      ingestion_date |-> Str(toISOString(DateV(currentDate[c]))) ],
                    NullError, now)
     IN /\ summary' = [summary EXCEPT ![c] = computed]
        /\ IF ~built.threw /\ validateOutput(built.value)
           THEN /\ pc' = [pc EXCEPT ![c] = "done"]
                /\ outcome' = [outcome EXCEPT ![c] = [state |-> "fulfilled", value |-> built.value]]
           ELSE /\ pc' = [pc EXCEPT ![c] = "crashed"]
                /\ outcome' = outcome
  /\ UNCHANGED <<now, op, args, input, inventory, processed, currentDate>>
  /\ UNCHANGED <<promoPilot, collector, stops>>

\* the 'error' handler of invocation c's stream
OverlapOnError(c) ==
  /\ op[c] = "inventory" /\ pc[c] = "streaming"
  /\ pc' = [pc EXCEPT ![c] = "done"]
  /\ outcome' = [outcome EXCEPT ![c] =
                   [state |-> "rejected",
                    value |-> AppError(<<"Failed to parse CSV: ", "stream error">>, FILE_SYSTEM,
                                       "filePath" :> Get(args[c], "file_path"))]]
  /\ UNCHANGED <<now, op, args, input, inventory, processed, currentDate, summary>>
  /\ UNCHANGED <<promoPilot, collector, stops>>

\* invocation c of fetch_incentive_data(params), up to its first await
OverlapFetchCall(c) ==
  /\ MayStart(c)
  /\ \E params \in OverlapIncentiveParams : args' = [args EXCEPT ![c] = params]
  /\ op' = [op EXCEPT ![c] = "incentive"]
  /\ pc' = [pc EXCEPT ![c] = "checking"]
  /\ outcome' = [outcome EXCEPT ![c] = [state |-> "pending", value |-> EmptyMap]]
  /\ UNCHANGED <<now, input, inventory, processed, currentDate, summary>>
  /\ UNCHANGED <<promoPilot, collector, stops>>

\* checkFileExists of invocation c settles
OverlapFetchCheck(c) ==
  /\ op[c] = "incentive" /\ pc[c] = "checking"
  /\ LET checked == checkFileExists(Get(args[c], "source_path"), "Incentive file")
     IN IF checked.ok
        THEN pc' = [pc EXCEPT ![c] = "reading"] /\ outcome' = outcome
        ELSE /\ pc' = [pc EXCEPT ![c] = "done"]
             /\ outcome' = [outcome EXCEPT ![c] =
                              [state |-> "fulfilled", value |-> handleError(checked.error, now)]]
  /\ UNCHANGED <<now, op, args, input, inventory, processed, currentDate, summary>>
  /\ UNCHANGED <<promoPilot, collector, stops>>

\* fs.readJson of invocation c settles and the rest of the function runs
OverlapFetchRead(c) ==
  /\ op[c] = "incentive" /\ pc[c] = "reading"
  /\ \E payload \in OverlapPayloads :
       LET response == fetchResponse(payload, filterActiveOnlyOf(args[c]), includeExpiredOf(args[c]), now)
       IN /\ input' = [input EXCEPT ![c] = payload]
          /\ processed' = [processed EXCEPT ![c] = processedOf(payload, now)]
          /\ summary' = [summary EXCEPT ![c] = Get(response, "summary")]
          /\ outcome' = [outcome EXCEPT ![c] = [state |-> "fulfilled", value |-> response]]
  /\ currentDate' = [currentDate EXCEPT ![c] = now]
  /\ pc' = [pc EXCEPT ![c] = "done"]
  /\ UNCHANGED <<now, op, args, inventory>>
  /\ UNCHANGED <<promoPilot, collector, stops>>

\* the exception that escaped a stream handler is uncaught: unless the
\* embedding handles it, the process ends and with it every invocation that
\* has not returned
ProcessExit ==
  /\ \E c \in Calls : pc[c] = "crashed"
  /\ \E c \in Calls : pc[c] \notin {"done", "crashed"}
  /\ pc' = [c \in Calls |-> IF pc[c] = "done" THEN "done" ELSE "crashed"]
  /\ UNCHANGED <<now, op, args, input, inventory, processed, currentDate, summary, outcome>>
  /\ UNCHANGED <<promoPilot, collector, stops>>

NextOverlap ==
  \/ Tick
  \/ ProcessExit
  \/ \E c \in Calls :
       \/ OverlapIngestCall(c)
       \/ OverlapOnData(c)
       \/ OverlapOnEnd(c)
       \/ OverlapOnError(c)
       \/ OverlapFetchCall(c)
       \/ OverlapFetchCheck(c)
       \/ OverlapFetchRead(c)

SpecOverlap == InitOverlap /\ [][NextOverlap]_vars

\* ------------------------------------------------------------------ claims
Fresh == Str(<<"Fresh">>)
Aging == Str(<<"Aging">>)
Stale == Str(<<"Stale">>)
Critical == Str(<<"Critical">>)
Upcoming == Str(<<"Upcoming">>)
Active == Str(<<"Active">>)
Expired == Str(<<"Expired">>)

\* the vehicles of the inventory array that carry an integer days_on_lot
WithDays == {i \in 1..Len(inventory) :
               "days_on_lot" \in DOMAIN inventory[i] /\ inventory[i]["days_on_lot"].t = "number"}

\* the category the specification gives d days on the lot
AgingPolicy(d, category) ==
  /\ category \in {Fresh, Aging, Stale, Critical}
  /\ category = Fresh <=> d <= 30
  /\ category = Aging <=> (31 <= d /\ d <= 60)
  /\ category = Stale <=> (61 <= d /\ d <= 90)
  /\ category = Critical <=> d > 90

\* C1: every vehicle ingested with an integer days-on-lot d, negative d
\* included, has the category 'Fresh' iff d <= 30, 'Aging' iff 31 <= d <= 60,
\* 'Stale' iff 61 <= d <= 90 and 'Critical' iff d > 90, and so does every d
\* from -3 to 95.
C1_AgingCategory ==
  /\ \A i \in WithDays : AgingPolicy(inventory[i]["days_on_lot"].n, inventory[i]["aging_category"])
  /\ \A d \in (-3)..95 : AgingPolicy(d, getAgingCategory(Num(d)))

\* C1: a vehicle received after the clock value was ingested, not rejected,
\* with a negative days-on-lot and the category 'Fresh', next to one at a
\* boundary day
C1_Witness ==
  /\ \E i \in WithDays : inventory[i]["days_on_lot"].n < 0 /\ inventory[i]["aging_category"] = Fresh
  /\ \E i \in WithDays : inventory[i]["days_on_lot"].n = 31 /\ inventory[i]["aging_category"] = Aging

\* a fetch has returned
FetchDone == op = "incentive" /\ pc = "done"

\* the processed incentives of the fetch whose two dates are valid
WithDates == {i \in 1..Len(processed) :
                processed[i].start_date.t = "Date" /\ processed[i].end_date.t = "Date"}

\* the status the specification gives an incentive running from start to
\* end at clock value t
StatusPolicy(start, end, t, status) ==
  /\ status \in {Upcoming, Active, Expired}
  /\ status = Upcoming <=> t < start
  /\ status = Expired <=> (t >= start /\ t > end)
  /\ status = Active <=> (~(t < start) /\ ~(t >= start /\ t > end))

\* C2: the status of every processed incentive with valid dates is 'Upcoming'
\* iff now < start, 'Expired' iff now >= start and now > end, and 'Active'
\* otherwise, where now is the clock value the fetch read; it is the value
\* getIncentiveStatus gives for these three arguments alone.
C2_IncentiveStatus ==
  FetchDone =>
    \A i \in WithDates :
      /\ StatusPolicy(processed[i].start_date.n, processed[i].end_date.n, currentDate, processed[i].status)
      /\ processed[i].status = getIncentiveStatus(processed[i].start_date, processed[i].end_date, DateV(currentDate))

\* C2: a fetch classified an incentive that starts and ends at the clock
\* value it read (now == start and now == end) as 'Active'
C2_Witness ==
  /\ FetchDone
  /\ \E i \in WithDates :
       /\ processed[i].start_date.n = currentDate
       /\ processed[i].end_date.n = currentDate
       /\ processed[i].status = Active

Rank(status) == CASE status = Upcoming -> 0 [] status = Active -> 1 [] status = Expired -> 2

\* C3: for every incentive a fetch processed at clock value t1, the status
\* computed for the same start and end dates at the current clock value
\* t2 >= t1 is not earlier in the order Upcoming < Active < Expired.
C3_StatusMonotonic ==
  FetchDone =>
    \A i \in 1..Len(processed) :
      /\ currentDate <= now
      /\ Rank(getIncentiveStatus(processed[i].start_date, processed[i].end_date, DateV(now)))
           >= Rank(processed[i].status)

\* C3: the clock advanced after a fetch and an incentive the fetch saw as
\* 'Active' is 'Expired' now, another it saw as 'Upcoming' is 'Active' now
C3_Witness ==
  /\ FetchDone
  /\ currentDate < now
  /\ \E i \in 1..Len(processed) :
       /\ processed[i].status = Active
       /\ getIncentiveStatus(processed[i].start_date, processed[i].end_date, DateV(now)) = Expired
  /\ \E i \in 1..Len(processed) :
       /\ processed[i].status = Upcoming
       /\ getIncentiveStatus(processed[i].start_date, processed[i].end_date, DateV(now)) = Active

\* the envelope a settled call returned
Envelope == outcome.value
Succeeded == outcome.state = "fulfilled" /\ Get(Envelope, "success") = Bool(TRUE)

\* the 'end' handler of an ingestion has computed the summary
IngestSummarised == op = "inventory" /\ pc \in {"done", "crashed"} /\ DOMAIN summary # {}

\* C4: a summary built from an empty record set reports zero and empty
\* aggregates: average_value = 0 and average_days_on_lot = 0, totals 0, empty
\* by_make and vehicle_lines maps.
C4_EmptySummary ==
  /\ (FetchDone /\ Succeeded /\ Envelope["data"] = <<>>) =>
       /\ summary.total_incentives = Num(0)
       /\ summary.total_value = Num(0)
       /\ summary.average_value = Num(0)
       /\ DOMAIN summary.by_make = {}
       /\ DOMAIN summary.vehicle_lines = {}
  /\ (IngestSummarised /\ inventory = <<>>) =>
       /\ summary.total_vehicles = Num(0)
       /\ summary.total_msrp_value = Num(0)
       /\ summary.average_days_on_lot = Num(0)
       /\ DOMAIN summary.by_make = {}
       /\ DOMAIN summary.vehicle_lines = {}

\* C5: a call of ingest_inventory_data or fetch_incentive_data that has come
\* to its end has returned an Envelope: the promise is fulfilled (not
\* rejected, not left pending by an exception that escaped a handler) with
\* success = true, or success = false and an error message.
C5_AlwaysEnvelope ==
  (op \in {"inventory", "incentive"} /\ pc \in {"done", "crashed"}) =>
    /\ outcome.state = "fulfilled"
    /\ Get(Envelope, "success") \in {Bool(TRUE), Bool(FALSE)}
    /\ Get(Envelope, "success") = Bool(FALSE) => Get(Envelope, "error").t = "string"

\* C6: when the parameters of ingest_inventory_data omit calculate_metrics,
\* every vehicle record carries days_on_lot, aging_category and vehicle_line.
C6_MetricsByDefault ==
  (op = "inventory" /\ "calculate_metrics" \notin DOMAIN args) =>
    \A i \in 1..Len(inventory) :
      {"days_on_lot", "aging_category", "vehicle_line"} \subseteq DOMAIN inventory[i]

\* C7: a payload that is neither an array nor an object with an `incentives`
\* array makes fetch_incentive_data return a failure Envelope with no data,
\* no summary and errorType VALIDATION.
C7_MalformedPayload ==
  (FetchDone /\ "kind" \in DOMAIN input /\ input.kind = "other") =>
    /\ Get(Envelope, "success") = Bool(FALSE)
    /\ "data" \notin DOMAIN Envelope
    /\ "summary" \notin DOMAIN Envelope
    /\ Get(Envelope, "errorType") = Str(<<VALIDATION>>)

\* C8: every Envelope built by createResponse or createStandardResponse has
\* the timestamp the builder set and exactly one branch populated: with
\* success = true no error and no errorType, with success = false an error
\* message and none of the fields of the data argument.
C8_EnvelopeBranches ==
  (op = "envelope" /\ pc = "done") =>
    /\ Get(Envelope, "timestamp") = DateStr(currentDate)
    /\ Truthy(args.success) => ("error" \notin DOMAIN Envelope /\ "errorType" \notin DOMAIN Envelope)
    /\ ~Truthy(args.success) =>
         /\ Get(Envelope, "error").t = "string"
         /\ \A k \in DOMAIN args.data : k \notin DOMAIN Envelope \/ Envelope[k] # args.data[k]

\* a row whose required fields parse
Normalizes(row) ==
  /\ parseNumber(Or(Get(row, "Year"), Get(row, "year"))).t = "number"
  /\ newDate(Or(Get(row, "DateReceived"), Get(row, "date_received"))).t = "Date"

\* C9: a CSV row whose Year or DateReceived does not parse is skipped: the
\* inventory array holds the vehicles of exactly the other rows delivered, in
\* order.
C9_BadRowsSkipped ==
  op = "inventory" =>
    LET good == SelectSeq(input, Normalizes)
    IN /\ Len(inventory) = Len(good)
       /\ \A i \in 1..Len(inventory) :
            inventory[i] = onDataVehicle(good[i], calculateMetricsOf(args), currentDate)

\* the conjunction of the requested filters
PassesFilters(inc) ==
  /\ Truthy(filterActiveOnlyOf(args)) => inc.status = Active
  /\ ~Truthy(includeExpiredOf(args)) => inc.status # Expired

\* C10: the incentives a fetch returns are exactly the processed incentives
\* that satisfy (filter_active_only => status = 'Active') and
\* (not include_expired => status # 'Expired'); with filter_active_only true
\* they are the Active ones whatever include_expired is, and with both flags
\* at their defaults none is Upcoming or Expired.
C10_FilterConjunction ==
  (FetchDone /\ Succeeded) =>
    /\ Envelope["data"] = SelectSeq(processed, PassesFilters)
    /\ Truthy(filterActiveOnlyOf(args)) => Envelope["data"] = SelectSeq(processed, KeepActive)
    /\ ({"filter_active_only", "include_expired"} \cap DOMAIN args = {}) =>
         \A i \in 1..Len(Envelope["data"]) : Envelope["data"][i].status \notin {Upcoming, Expired}

\* C10: a fetch with both flags omitted processed an Upcoming or Expired
\* incentive beside an Active one and returned the Active one alone
C10_Witness ==
  /\ FetchDone /\ Succeeded
  /\ {"filter_active_only", "include_expired"} \cap DOMAIN args = {}
  /\ Len(processed) = 2
  /\ Len(Envelope["data"]) = 1
  /\ \E i \in 1..2 : processed[i].status # Active

\* a direct call of calculateSummary has returned
SummaryDone == op = "summary" /\ pc = "done"
\* its configuration, as the call destructured it
Config == destructure(args.config)
GroupKeys == {KBy \o Config.groupByFields[i] : i \in 1..Len(Config.groupByFields)}
SumKeys == {Config.sumFields[i].key : i \in 1..Len(Config.sumFields)}

\* C11: calculateSummary on an empty sequence returns (it does not throw)
\* the total key = 0, every by_<field> map empty and every sum key = 0.
C11_EmptyAggregate ==
  (SummaryDone /\ args.items = <<>>) =>
    /\ Config.totalKey \in DOMAIN summary /\ summary[Config.totalKey] = Num(0)
    /\ \A k \in GroupKeys : k \in DOMAIN summary /\ DOMAIN summary[k] = {}
    /\ \A k \in SumKeys : k \in DOMAIN summary /\ summary[k] = Num(0)

\* C11: calculateSummary returned for an empty sequence and a configuration
\* with two group-by fields and two sum fields
C11_Witness ==
  /\ SummaryDone
  /\ args.items = <<>>
  /\ Cardinality(GroupKeys) = 2
  /\ Cardinality(SumKeys) = 2

\* the permutations of 1..n
Reorderings(n) == {f \in [1..n -> 1..n] : \A i, j \in 1..n : i # j => f[i] # f[j]}

IsRounded(a, t, n) == 2 * a * n <= 2 * t + n /\ 2 * t + n < 2 * a * n + 2 * n

\* the key average_<rest> of a key total_<rest>
AverageKey(key) == KAverage \o SubSeq(key, Len(KTotal) + 1, Len(key))

\* C13: for a non-empty sequence the summary has, beside the total key, the
\* by_<field> keys and the sum keys, a key average_<rest> = round(total /
\* count) for exactly the sum keys total_<rest> (a sum key that does not begin
\* with 'total_' adds no key); for an empty sequence an average key is absent
\* or 0.
C13_AverageKeys ==
  SummaryDone =>
    LET totals == {k \in SumKeys : StartsWith(k, KTotal)}
        n == Len(args.items)
    IN IF n > 0
       THEN /\ DOMAIN summary = {Config.totalKey} \cup GroupKeys \cup SumKeys
                                  \cup {AverageKey(k) : k \in totals}
            /\ \A k \in totals : IsRounded(summary[AverageKey(k)].n, summary[k].n, n)
       ELSE \A k \in totals : AverageKey(k) \notin DOMAIN summary \/ summary[AverageKey(k)] = Num(0)

\* an incentive whose value is a number above 2000
AboveThreshold(inc) == inc.value.t = "number" /\ inc.value.n > 2000

\* C14: high_value_incentives of the summary a fetch returns holds, in
\* order, one entry {vehicle_line, value, type} for each returned incentive
\* whose value is above 2000, whatever its status, and nothing else (a value
\* of exactly 2000 is not listed).
C14_HighValue ==
  (FetchDone /\ Succeeded) =>
    LET high == SelectSeq(Envelope["data"], AboveThreshold)
    IN /\ Len(summary.high_value_incentives) = Len(high)
       /\ \A i \in 1..Len(high) :
            summary.high_value_incentives[i] =
              [vehicle_line |-> high[i].vehicle_line, value |-> high[i].value,
               type |-> high[i].incentive_type]

\* C14: a fetch returned an incentive of value exactly 2000 and an Expired
\* one of value 3000, and its summary lists the Expired one alone
C14_Witness ==
  /\ FetchDone /\ Succeeded
  /\ \E i \in 1..Len(Envelope["data"]) : Envelope["data"][i].value = Num(2000)
  /\ \E i \in 1..Len(Envelope["data"]) :
       Envelope["data"][i].value = Num(3000) /\ Envelope["data"][i].status = Expired
  /\ Len(summary.high_value_incentives) = 1
  /\ summary.high_value_incentives[1].value = Num(3000)

\* an Active incentive with at most 30 days remaining
ActiveWithin30(inc) ==
  inc.status = Active /\ inc.days_remaining.t = "number" /\ inc.days_remaining.n <= 30

\* C15: expiring_soon of the summary a fetch returns holds, in order, one
\* entry {vehicle_line, days_remaining, value} for each returned incentive
\* that is Active with days_remaining <= 30, and nothing else: 30 days is
\* listed, 31 days is not, an Upcoming or Expired incentive never.
C15_ExpiringSoon ==
  (FetchDone /\ Succeeded) =>
    LET soon == SelectSeq(Envelope["data"], ActiveWithin30)
    IN /\ Len(summary.expiring_soon) = Len(soon)
       /\ \A i \in 1..Len(soon) :
            summary.expiring_soon[i] =
              [vehicle_line |-> soon[i].vehicle_line, days_remaining |-> soon[i].days_remaining,
               value |-> soon[i].value]

\* C15: a fetch returned an Active incentive with 30 days remaining beside
\* an Active one with 31, and its summary lists the first alone
C15_Witness ==
  /\ FetchDone /\ Succeeded
  /\ Len(Envelope["data"]) = 2
  /\ Envelope["data"][1].status = Active /\ Envelope["data"][1].days_remaining = Num(30)
  /\ Envelope["data"][2].status = Active /\ Envelope["data"][2].days_remaining = Num(31)
  /\ Len(summary.expiring_soon) = 1
  /\ summary.expiring_soon[1].days_remaining = Num(30)

AgingKeys == {<<"Fresh">>, <<"Aging">>, <<"Stale">>, <<"Critical">>}

\* C16: by_aging of the summary an ingestion computed, whatever
\* calculate_metrics is and also for no rows, has exactly the keys Fresh,
\* Aging, Stale and Critical, each a non-negative integer, and the four
\* counts add up to total_vehicles.
C16_ByAging ==
  IngestSummarised =>
    /\ DOMAIN summary.by_aging = AgingKeys
    /\ \A k \in AgingKeys : summary.by_aging[k].t = "number" /\ summary.by_aging[k].n >= 0
    /\ summary.by_aging[<<"Fresh">>].n + summary.by_aging[<<"Aging">>].n
         + summary.by_aging[<<"Stale">>].n + summary.by_aging[<<"Critical">>].n
       = summary.total_vehicles.n

\* the sum of the first n numbers of a sequence of integers
RECURSIVE SumTo(_, _)
SumTo(numbers, n) == IF n = 0 THEN 0 ELSE numbers[n] + SumTo(numbers, n - 1)

\* every vehicle of the inventory array carries the derived fields
MetricsComputed == \A i \in 1..Len(inventory) : "days_on_lot" \in DOMAIN inventory[i]

\* C17: for a non-empty batch of vehicles with computed metrics, the summary
\* has by_make[m] = the number of vehicles of make m, total_msrp_value = the
\* sum of the msrp values and average_days_on_lot = round(sum of days_on_lot
\* / number of vehicles); a value that is NaN makes its sum NaN.
C17_InventorySummary ==
  (IngestSummarised /\ inventory # <<>> /\ MetricsComputed) =>
    LET n == Len(inventory)
        makes == {ToStr(inventory[i].make) : i \in 1..n}
        msrp == [i \in 1..n |-> inventory[i].msrp.n]
        days == [i \in 1..n |-> inventory[i]["days_on_lot"].n]
    IN /\ DOMAIN summary.by_make = makes
       /\ \A m \in makes :
            summary.by_make[m] = Num(Cardinality({i \in 1..n : ToStr(inventory[i].make) = m}))
       /\ IF \A i \in 1..n : inventory[i].msrp.t = "number"
          THEN summary.total_msrp_value = Num(SumTo(msrp, n))
          ELSE summary.total_msrp_value = NaN
       /\ IF \A i \in 1..n : inventory[i]["days_on_lot"].t = "number"
          THEN /\ summary.average_days_on_lot.t = "number"
               /\ IsRounded(summary.average_days_on_lot.n, SumTo(days, n), n)
          ELSE summary.average_days_on_lot = NaN

\* C17: two vehicles of one make, 10 and 95 days on the lot, msrp 25000 and
\* 27000, were summarised: by_make counts 2, the total is 52000 and the
\* average is 53
C17_Witness ==
  /\ IngestSummarised
  /\ Len(inventory) = 2
  /\ MetricsComputed
  /\ {inventory[i]["days_on_lot"] : i \in 1..2} = {Num(10), Num(95)}
  /\ {inventory[i].msrp : i \in 1..2} = {Num(25000), Num(27000)}
  /\ summary.by_make = (Ford :> Num(2))
  /\ summary.total_msrp_value = Num(52000)
  /\ summary.average_days_on_lot = Num(53)

\* C18: a failure Envelope built from an AppError carries the error's message
\* and its type in errorType; one built from another Error carries a message
\* and no errorType.  So for the envelope builders called with an error, and
\* for the failure envelopes fetch_incentive_data returns.
C18_ErrorType ==
  /\ (op = "envelope" /\ pc = "done" /\ ~Truthy(args.success) /\ args.error.name # "null") =>
       IF args.error.name = "AppError"
       THEN /\ Get(Envelope, "error") = args.error.message
            /\ Get(Envelope, "errorType") = args.error.type
       ELSE /\ Get(Envelope, "error").t = "string"
            /\ args.error.message.s # <<>> => Get(Envelope, "error") = args.error.message
            /\ "errorType" \notin DOMAIN Envelope
  /\ (FetchDone /\ ~Succeeded) =>
       IF input = <<>>
       THEN Get(Envelope, "error").t = "string" /\ Get(Envelope, "errorType") = Str(<<FILE_SYSTEM>>)
       ELSE Get(Envelope, "error").t = "string" /\ "errorType" \notin DOMAIN Envelope

\* C18: createResponse built a failure envelope from an AppError of type
\* VALIDATION and the envelope carries 'Test error' and that type
C18_Witness ==
  /\ op = "envelope" /\ pc = "done"
  /\ args.builder = "createResponse"
  /\ ~Truthy(args.success)
  /\ args.error.name = "AppError"
  /\ Get(Envelope, "error") = Str(<<"Test error">>)
  /\ Get(Envelope, "errorType") = Str(<<VALIDATION>>)

\* C19: a fetch whose source_path names no file ends without having read
\* anything (no payload, no processed incentive) and returns a failure
\* Envelope with the message 'Incentive file not found: <path>', errorType
\* FILE_SYSTEM and neither data nor summary.
C19_MissingFile ==
  (FetchDone /\ ~pathExists(Get(args, "source_path"))) =>
    /\ input = <<>>
    /\ processed = <<>>
    /\ outcome.state = "fulfilled"
    /\ Get(Envelope, "success") = Bool(FALSE)
    /\ Get(Envelope, "error") = Str(<<"Incentive file", " not found: ">> \o ToStr(Get(args, "source_path")))
    /\ Get(Envelope, "errorType") = Str(<<FILE_SYSTEM>>)
    /\ "data" \notin DOMAIN Envelope
    /\ "summary" \notin DOMAIN Envelope

\* C19: a fetch of the path 'x', which names no file, has returned its
\* failure Envelope
C19_Witness ==
  /\ FetchDone
  /\ Get(args, "source_path") = Str(MissingPath)
  /\ Get(Envelope, "success") = Bool(FALSE)
  /\ Get(Envelope, "error") = Str(<<"Incentive file", " not found: ", "x">>)

\* the vehicles of the rows invocation c's own stream delivered
OwnVehicles(c) ==
  [i \in 1..Len(input[c]) |-> onDataVehicle(input[c][i], calculateMetricsOf(args[c]), currentDate[c])]

\* the locals of every invocation hold what its own input gives: the
\* inventory array its own rows in order, the summary that of its own records
OwnRecords ==
  \A c \in Calls :
    /\ op[c] = "inventory" =>
         /\ inventory[c] = OwnVehicles(c)
         /\ DOMAIN summary[c] # {} => summary[c] = calculateInventorySummary(OwnVehicles(c))
    /\ (op[c] = "incentive" /\ pc[c] = "done") =>
         outcome[c].value = fetchResponse(input[c], filterActiveOnlyOf(args[c]),
                                          includeExpiredOf(args[c]), currentDate[c])

\* the invocations that read their file to its end
ReadToEnd(c) ==
  \/ op[c] = "incentive" /\ pc[c] \in {"done", "crashed"}
  \/ op[c] = "inventory" /\ (pc[c] = "crashed" \/ outcome[c].state = "fulfilled")

\* C20: of two overlapping invocations, each that read its file to the end
\* returns an Envelope with exactly the records of its own input, in input
\* order, and the summary of those records; no array or summary holds
\* anything of the other invocation.
C20_Isolation ==
  (\A c \in Calls : op[c] # "none") =>
  /\ OwnRecords
  /\ \A c \in Calls :
       ReadToEnd(c) =>
         /\ outcome[c].state = "fulfilled"
         /\ op[c] = "inventory" =>
              /\ Get(outcome[c].value, "data") = OwnVehicles(c)
              /\ Get(outcome[c].value, "summary") = calculateInventorySummary(OwnVehicles(c))

\* the object with its field `from` renamed to its alias `to`
Renamed(obj, from, to) ==
  IF from \in DOMAIN obj /\ to \notin DOMAIN obj
  THEN [k \in (DOMAIN obj \ {from}) \cup {to} |-> IF k = to THEN obj[from] ELSE obj[k]]
  ELSE obj

\* a fetch has processed the incentive objects of its payload
FetchProcessed == FetchDone /\ "kind" \in DOMAIN input /\ input.kind \in {"array", "wrapped"}

\* C21: the record processed from an incentive object is the record processed
\* from the same object with `type` renamed to `incentive_type`, and from the
\* same object with `value` renamed to `amount`, the derived id included.
C21_AliasInvariance ==
  FetchProcessed =>
    \A i \in 1..Len(processed) :
      /\ processIncentive(Renamed(input.items[i], "type", "incentive_type"), currentDate) = processed[i]
      /\ processIncentive(Renamed(input.items[i], "value", "amount"), currentDate) = processed[i]

\* C22: every processed incentive record has a numeric value of at least 0,
\* the value is 0 when the object has neither `value` nor `amount`, and the
\* total_value of the summary is numeric and at least 0.
C22_ValueNonNegative ==
  FetchProcessed =>
    /\ \A i \in 1..Len(processed) :
         /\ processed[i].value.t = "number" /\ processed[i].value.n >= 0
         /\ DOMAIN input.items[i] \cap {"value", "amount"} = {} => processed[i].value = Num(0)
    /\ outcome.value.success = Bool(TRUE) =>
         /\ outcome.value.summary.total_value.t = "number"
         /\ outcome.value.summary.total_value.n >= 0

\* the vehicles of the ingestion that were given their derived fields
WithLine == {i \in 1..Len(inventory) : "vehicle_line" \in DOMAIN inventory[i]}

\* C23: the vehicle_line of an inventory vehicle is formatVehicleLine(year,
\* make, model), which is also the vehicle_line of an incentive with the same
\* year, make and model.
C23_SameVehicleLine ==
  op = "inventory" =>
    \A i \in WithLine :
      LET vehicle == inventory[i]
          incentive == [year |-> vehicle.year, make |-> vehicle.make, model |-> vehicle.model]
      IN /\ vehicle.vehicle_line = formatVehicleLine(vehicle.year, vehicle.make, vehicle.model)
         /\ vehicle.vehicle_line = processIncentive(incentive, currentDate).vehicle_line

\* a call of formatVehicleLine has returned
FormatDone == op = "formatVehicleLine" /\ pc = "done"
\* year + ' ' + make + ' ' + model
Concatenated == ToStr(args.year) \o <<" ">> \o ToStr(args.make) \o <<" ">> \o ToStr(args.model)
\* every character of chars is white space
RECURSIVE AllSpaces(_)
AllSpaces(chars) == chars = <<>> \/ (IsSpace(Head(chars)) /\ AllSpaces(Tail(chars)))
PaddedExample == [year |-> Num(2024), make |-> Str(<<" ">> \o Honda \o <<" ">>),
                  model |-> Str(<<" ">> \o Civic \o <<" ">>)]

MakeAlone == [year |-> Str(<<>>), make |-> Str(<<"M", "a", "k", "e">>), model |-> Str(<<>>)]

ParseDone == op = "parseNumberSafe" /\ pc = "done"
\* the fallback of the call, 0 when none was given
GivenFallback == IF args.fallback = Undefined THEN Num(0) ELSE args.fallback
\* the inputs that read as a number and the number each reads as, as the
\* tests of parseNumberSafe list them
NumericReading ==
  Num(456) :> 456 @@ Num(0) :> 0 @@ Str(<<"1", "2", "3">>) :> 123 @@ Str(<<"0">>) :> 0
  @@ Str(<<"-", "7", "8", "9">>) :> -789 @@ Str(<<" ", " ", "4", "5", "6", " ", " ">>) :> 456
  @@ Str(<<"1", "2", "3", "a", "b", "c">>) :> 123

\* C26: parseNumberSafe returns a number that is not NaN for every input:
\* the numeric interpretation of an input that has one, the fallback
\* (0 when none is given) for every other input.
C26_ParseTotal ==
  ParseDone =>
    /\ outcome.value.t = "number"
    /\ args.value \in DOMAIN NumericReading => outcome.value = Num(NumericReading[args.value])
    /\ args.value \notin DOMAIN NumericReading => outcome.value = GivenFallback

\* C27: a success envelope of ingest_inventory_data has total_vehicles = the
\* length of data = summary.total_vehicles (and the summary the 'end' handler
\* computes counts the vehicles of the inventory array); a success envelope of
\* fetch_incentive_data has total_incentives = the length of data =
\* summary.total_incentives = the sum of the three by_status counts.
C27_TotalsAgree ==
  /\ (op = "inventory" /\ Succeeded) =>
       /\ Envelope["total_vehicles"] = Num(Len(Envelope["data"]))
       /\ Envelope["total_vehicles"] = Envelope["summary"].total_vehicles
  /\ IngestSummarised => summary.total_vehicles = Num(Len(inventory))
  /\ (FetchDone /\ Succeeded) =>
       LET by_status == Envelope["summary"].by_status
       IN /\ Envelope["total_incentives"] = Num(Len(Envelope["data"]))
          /\ Envelope["total_incentives"] = Envelope["summary"].total_incentives
          /\ DOMAIN by_status = {Active.s, Upcoming.s, Expired.s}
          /\ Add(Add(by_status[Active.s], by_status[Upcoming.s]), by_status[Expired.s])
               = Envelope["total_incentives"]

\* C27: a fetch dropped one of its two incentives and reports the one it kept
C27_Witness ==
  /\ FetchDone /\ Succeeded
  /\ Len(processed) = 2
  /\ Envelope["total_incentives"] = Num(1)
  /\ Envelope["summary"].by_status[Upcoming.s] = Num(1)

\* the date of a processed incentive is an Invalid Date
NoStart(inc) == inc.start_date.t = "InvalidDate"
NoEnd(inc) == inc.end_date.t = "InvalidDate"
\* the call left both filter flags at their defaults
DefaultFilters == {"filter_active_only", "include_expired"} \cap DOMAIN args = {}
\* the incentive is among the records the envelope returns
Returned(inc) == \E j \in 1..Len(Envelope["data"]) : Envelope["data"][j] = inc
\* no entry of expiring_soon lacks a number of days
ListedHaveDays ==
  \A j \in 1..Len(Envelope["summary"].expiring_soon) :
    Envelope["summary"].expiring_soon[j].days_remaining.t = "number"

\* C28: an incentive whose start_date or end_date is missing or unparseable
\* is classified Active, is kept by the default filters and is not listed in
\* expiring_soon.
C28_InvalidDateActive ==
  FetchProcessed =>
    \A i \in 1..Len(processed) :
      (NoStart(processed[i]) \/ NoEnd(processed[i])) =>
        /\ processed[i].status = Active
        /\ processed[i].days_remaining.t = "NaN"
        /\ (Succeeded /\ DefaultFilters) => Returned(processed[i])

\* C28, amended: an incentive with both dates missing or unparseable is
\* Active and kept by the default filters; one without a valid start_date is
\* never Upcoming, one without a valid end_date is never Expired, has no
\* number of days remaining and is not listed in expiring_soon.
C28_BothDatesInvalid ==
  FetchProcessed =>
    /\ \A i \in 1..Len(processed) :
         /\ (NoStart(processed[i]) /\ NoEnd(processed[i])) =>
              /\ processed[i].status = Active
              /\ (Succeeded /\ DefaultFilters) => Returned(processed[i])
         /\ NoStart(processed[i]) => processed[i].status # Upcoming
         /\ NoEnd(processed[i]) =>
              /\ processed[i].status # Expired
              /\ processed[i].days_remaining.t = "NaN"
    /\ Succeeded => ListedHaveDays

\* C28: a fetch with the default filters returned an incentive without dates
\* and dropped one that has only an end date, and listed neither
C28_Witness ==
  /\ FetchProcessed /\ Succeeded /\ DefaultFilters
  /\ Len(processed) = 2
  /\ NoStart(processed[1]) /\ NoEnd(processed[1]) /\ Returned(processed[1])
  /\ NoStart(processed[2]) /\ ~NoEnd(processed[2]) /\ ~Returned(processed[2])
  /\ Envelope["summary"].expiring_soon = <<>>

\* C29: no operation of the PromoPilotAgent invokes createChatCompletion
\* unless a call of initialize() has completed successfully before, and
\* isInitialized is true only once tool loading has succeeded.
C29_InitializedBeforeCompletion ==
  /\ promoPilot.early = {}
  /\ promoPilot.completions > 0 => promoPilot.loaded
  /\ promoPilot.isInitialized => promoPilot.loaded

\* the metric key of a stop function's timer
KeyOf(stop) == getMetricKey(stop.name, stop.tags)
\* the samples recorded under a key
SamplesOf(key) == IF key \in DOMAIN collector.metrics THEN collector.metrics[key].values ELSE <<>>
Called == {i \in 1..Len(stops) : stops[i].called}

\* C30: every stop function that was called returned the time since its own
\* start and recorded one histogram sample, overlapping timers of one name
\* and tags included; a timer not yet stopped is in the timers map, and
\* once all are stopped the map is empty.
C30_OneSamplePerTimer ==
  /\ \A i \in Called :
       /\ stops[i].returned = Num(stops[i].stoppedAt - stops[i].started)
       /\ Len(SamplesOf(KeyOf(stops[i]))) = Cardinality({j \in Called : KeyOf(stops[j]) = KeyOf(stops[i])})
  /\ \A i \in (1..Len(stops)) \ Called : KeyOf(stops[i]) \in DOMAIN collector.timers
  /\ Called = 1..Len(stops) => DOMAIN collector.timers = {}

====
